---- MODULE Spec2Model ----
(***************************************************************************)
(* Roster reconciliation of botc-bot.py: the reaction handlers             *)
(* on_reaction_add / on_raw_reaction_remove acting on game_data, the       *)
(* persisted snapshot game_data.json and the users' reactions upstream.    *)
(***************************************************************************)
EXTENDS Integers, Sequences, FiniteSets, TLC

\* ------------------------------------------------------------ bounds
\* live users sending signals
NumUsers == 2
\* signals a user may have pending (undelivered) before acting again
MaxQueue == 2
\* reactions one user holds on the message at the same time
MaxActive == 2
\* handlers suspended at an await at the same time (interleaved specification)
MaxTasks == 2
\* largest integer a snapshot holds (user ids, counts, message / event ids)
MaxInt == 200

Users == 1..NumUsers

\* ------------------------------------------------------------ configuration
MAX_MAIN_PLAYERS == 15
MAX_TRAVELERS == 5
MAX_STORYTELLERS == 1
MAIN_PLAYER_EMOJI == "shield"
TRAVELER_EMOJI == "luggage"
STORYTELLER_EMOJI == "clock"
HANGOUT_EMOJI == "surfer"
MAIN_GUEST_EMOJIS == <<"dagger", "swords", "bow", "lightning">>
TRAVELER_GUEST_EMOJIS == <<"car", "plane", "train", "ship">>
SEAL_EMOJI == "seal"
\* an emoji none of the handlers' branches recognises
OTHER_EMOJI == "thumbsup"
ALL_MAIN_EMOJIS == <<MAIN_PLAYER_EMOJI>> \o MAIN_GUEST_EMOJIS
ALL_TRAVELER_EMOJIS == <<TRAVELER_EMOJI>> \o TRAVELER_GUEST_EMOJIS

\* Python's None for ids (ids are positive) and for an emoji
NoneId == 0
NoEmoji == "None"
\* Python's None for week_of, and a key the dict does not have
NoneStr == "None"
Absent == "absent"

Range(s) == {s[i] : i \in 1..Len(s)}

\* message.reactions with the main group in descending order of weight
MessageReactions_Descending ==
    <<STORYTELLER_EMOJI>>
        \o [i \in 1..Len(ALL_MAIN_EMOJIS) |-> ALL_MAIN_EMOJIS[Len(ALL_MAIN_EMOJIS) + 1 - i]]
        \o ALL_TRAVELER_EMOJIS \o <<HANGOUT_EMOJI, SEAL_EMOJI>>

\* message.reactions: the order in which setup_game seeds the reactions
MessageReactions ==
    <<STORYTELLER_EMOJI>> \o ALL_MAIN_EMOJIS \o ALL_TRAVELER_EMOJIS
        \o <<HANGOUT_EMOJI, SEAL_EMOJI>>

AllEmojis == Range(MessageReactions) \cup {OTHER_EMOJI}

\* list.index(e): 0-based position of the first occurrence, -1 for ValueError
IndexOf(s, e) ==
    IF \E i \in 1..Len(s) : s[i] = e
    THEN (CHOOSE i \in 1..Len(s) : s[i] = e /\ \A j \in 1..(i - 1) : s[j] # e) - 1
    ELSE -1

\* the guests are counted without the player who brings them
get_guest_count_from_emoji_GuestsOnly(emoji, group_type) ==
    IF group_type = "main"
    THEN IF emoji = MAIN_PLAYER_EMOJI THEN 1
         ELSE IF IndexOf(MAIN_GUEST_EMOJIS, emoji) >= 0
              THEN IndexOf(MAIN_GUEST_EMOJIS, emoji) + 1 ELSE 0
    ELSE IF emoji = TRAVELER_EMOJI THEN 1
         ELSE IF IndexOf(TRAVELER_GUEST_EMOJIS, emoji) >= 0
              THEN IndexOf(TRAVELER_GUEST_EMOJIS, emoji) + 1 ELSE 0

get_guest_count_from_emoji(emoji, group_type) ==
    IF group_type = "main"
    THEN IF emoji = MAIN_PLAYER_EMOJI THEN 1
         ELSE IF IndexOf(MAIN_GUEST_EMOJIS, emoji) >= 0
              THEN IndexOf(MAIN_GUEST_EMOJIS, emoji) + 2 ELSE 0
    ELSE IF emoji = TRAVELER_EMOJI THEN 1
         ELSE IF IndexOf(TRAVELER_GUEST_EMOJIS, emoji) >= 0
              THEN IndexOf(TRAVELER_GUEST_EMOJIS, emoji) + 2 ELSE 0

\* ------------------------------------------------------------ roster helpers
NewPlayer(user_id) ==
    [user_id |-> user_id, main_count |-> 0, traveler_count |-> 0,
     storyteller |-> FALSE, hangout |-> FALSE]

RECURSIVE SumMain(_)
SumMain(ps) == IF ps = <<>> THEN 0 ELSE Head(ps).main_count + SumMain(Tail(ps))

RECURSIVE SumTraveler(_)
SumTraveler(ps) ==
    IF ps = <<>> THEN 0 ELSE Head(ps).traveler_count + SumTraveler(Tail(ps))

get_total_main_count(ps) == SumMain(ps)

get_total_traveler_count(ps) == SumTraveler(ps)

\* the count read before the other handlers ran: nobody holds the slot yet
get_total_storyteller_count_Stale(ps) == 0

get_total_storyteller_count(ps) ==
    Cardinality({i \in 1..Len(ps) : ps[i].storyteller})

\* 0-based index of the first entry of user_id, -1 when there is none
find_player(ps, user_id) ==
    IF \E i \in 1..Len(ps) : ps[i].user_id = user_id
    THEN (CHOOSE i \in 1..Len(ps) :
             /\ ps[i].user_id = user_id
             /\ \A j \in 1..(i - 1) : ps[j].user_id # user_id) - 1
    ELSE -1

IsActive(p) ==
    p.main_count > 0 \/ p.traveler_count > 0 \/ p.storyteller \/ p.hangout

\* the clean-up keeps every entry
CleanUpEmptyPlayers_KeepAll(ps) == ps

\* the "clean up empty players" list comprehension
CleanUpEmptyPlayers(ps) == SelectSeq(ps, IsActive)

\* a fresh entry is appended without looking the user up
FindOrCreate_AlwaysAppend(ps, user_id) == Append(ps, NewPlayer(user_id))

\* find or create the player entry (on_reaction_add)
FindOrCreate(ps, user_id) ==
    IF find_player(ps, user_id) = -1 THEN Append(ps, NewPlayer(user_id)) ELSE ps

\* the entry the handler's local `player` refers to
PlayerOf(ps, user_id) == ps[find_player(ps, user_id) + 1]

\* stored values of a user, 0 / FALSE when the user has no entry
StoredMain(ps, u) ==
    IF find_player(ps, u) = -1 THEN 0 ELSE PlayerOf(ps, u).main_count

StoredTraveler(ps, u) ==
    IF find_player(ps, u) = -1 THEN 0 ELSE PlayerOf(ps, u).traveler_count

StoredStoryteller(ps, u) ==
    IF find_player(ps, u) = -1 THEN FALSE ELSE PlayerOf(ps, u).storyteller

StoredHangout(ps, u) ==
    IF find_player(ps, u) = -1 THEN FALSE ELSE PlayerOf(ps, u).hangout

\* ------------------------------------------------------------ state
VARIABLES
    game_data,        \* the in-memory store: players, message_id, channel_id, ...
    disk,             \* the content of game_data.json
    reactions,        \* upstream: the emojis each user has active on the signup message
    queue,            \* reaction events delivered by the gateway, not yet handled
    tasks,            \* handlers suspended at an await (interleaved specification)
    last,             \* what the handler that has just completed did
    manage_messages   \* whether the bot holds the Manage Messages permission

vars == <<game_data, disk, reactions, queue, tasks, last, manage_messages>>

\* the signup message the users react to
SignupMessage == 1
SignupChannel == 1

Signal(kind, user_id, emoji, message_id) ==
    [kind |-> kind, user_id |-> user_id, emoji |-> emoji, message_id |-> message_id]

\* the log of a handler: the DMs delivered to the user, the steps it took after
\* its branch (save, prune, render, mirror) in their order, and whether an
\* exception left the handler
Last(op, user_id, emoji, outcome, available, dms) ==
    [op |-> op, user_id |-> user_id, emoji |-> emoji, outcome |-> outcome,
     available |-> available, dms |-> dms, steps |-> <<>>, raised |-> FALSE]

NoLast == Last("none", 0, NoEmoji, "none", 0, {})

\* entries of users who signed up in an earlier run and do not act in this one
BackgroundPlayers ==
    << [NewPlayer(101) EXCEPT !.main_count = 5],
       [NewPlayer(102) EXCEPT !.main_count = 5],
       [NewPlayer(103) EXCEPT !.main_count = 2] >>

\* the snapshots on_ready restores: a fresh setup, or one with earlier signups
InitialRosters == {<<>>, BackgroundPlayers}

\* the game_data dict with a message bound by setup_game
GameData(ps) ==
    [players |-> ps, message_id |-> SignupMessage, channel_id |-> SignupChannel,
     event_id |-> NoneId, week_of |-> "week", custom_game_time |-> "thu-19:30"]

\* the module-level game_data of a process that has just started
DefaultGameData ==
    [players |-> <<>>, message_id |-> NoneId, channel_id |-> NoneId,
     event_id |-> NoneId, week_of |-> NoneStr, custom_game_time |-> Absent]

\* ------------------------------------------------------------ game time
\* the default game: GAME_DAY is a datetime.weekday() number (0 = Monday),
\* GAME_TIME an (hour, minute) pair
TIMEZONE == "America/New_York"
GAME_DAY == 4
GAME_TIME == <<19, 30>>

\* the ValueError of a parser, and the value it returns otherwise
ValueError == [ok |-> FALSE, hour |-> 0, minute |-> 0]
Parsed(hour, minute) == [ok |-> TRUE, hour |-> hour, minute |-> minute]

\* a time string after strip().lower(), as the one pattern it can match reads
\* it: "hm" 19:30, "hm12" 7:30 pm, "h12" 7 pm, "h" 19, "junk" none of them
TimeString(form, hour, minute, am_pm) ==
    [form |-> form, hour |-> hour, minute |-> minute, am_pm |-> am_pm]

parse_12_hour(hour, minute, am_pm) ==
    IF hour < 1 \/ hour > 12 THEN ValueError
    ELSE IF am_pm = "am" THEN Parsed(IF hour = 12 THEN 0 ELSE hour, minute)
    ELSE Parsed(IF hour # 12 THEN hour + 12 ELSE hour, minute)

parse_hour_only(hour) ==
    IF hour < 0 \/ hour > 23 THEN ValueError
    ELSE IF 6 <= hour /\ hour <= 11 THEN Parsed(hour + 12, 0)
    ELSE Parsed(hour, 0)

\* parse_time_input: the parser of the matching pattern, its result returned
\* when it is a time of day; a ValueError in every other case
parse_time_input(time_str) ==
    LET r == IF time_str.form = "hm" THEN Parsed(time_str.hour, time_str.minute)
             ELSE IF time_str.form = "hm12"
             THEN parse_12_hour(time_str.hour, time_str.minute, time_str.am_pm)
             ELSE IF time_str.form = "h12"
             THEN parse_12_hour(time_str.hour, 0, time_str.am_pm)
             ELSE IF time_str.form = "h" THEN parse_hour_only(time_str.hour)
             ELSE ValueError
    IN  IF r.ok /\ 0 <= r.hour /\ r.hour <= 23 /\ 0 <= r.minute /\ r.minute <= 59
        THEN r ELSE ValueError

\* day_mapping of parse_day_input, the keys being lower-case day tokens
day_mapping ==
    [d \in {"monday", "mon", "m", "tuesday", "tue", "tues", "t", "wednesday",
            "wed", "w", "thursday", "thu", "thur", "th", "friday", "fri", "f",
            "saturday", "sat", "s", "sunday", "sun", "su"} |->
        IF d \in {"monday", "mon", "m"} THEN 0
        ELSE IF d \in {"tuesday", "tue", "tues", "t"} THEN 1
        ELSE IF d \in {"wednesday", "wed", "w"} THEN 2
        ELSE IF d \in {"thursday", "thu", "thur", "th"} THEN 3
        ELSE IF d \in {"friday", "fri", "f"} THEN 4
        ELSE IF d \in {"saturday", "sat", "s"} THEN 5
        ELSE 6]

\* parse_day_input: the weekday number of the token, -1 for the ValueError
parse_day_input(day_str) ==
    IF day_str \in DOMAIN day_mapping THEN day_mapping[day_str] ELSE -1

\* the names pytz.timezone accepts
KnownTimezones == {TIMEZONE, "America/Chicago"}

\* a wall-clock instant: the number of the day (day 0 is a Monday) and the
\* time of day
Instant(day, hour, minute) == [day |-> day, hour |-> hour, minute |-> minute]
Weekday(t) == t.day % 7
Minutes(t) == t.day * 1440 + t.hour * 60 + t.minute

\* get_next_game_time: days_ahead = day_of_week - now.weekday(), a week more
\* when that is <= 0; now + days_ahead days with the hour and minute replaced
get_next_game_time(now, day_of_week, hour, minute) ==
    LET d == day_of_week - Weekday(now)
        days_ahead == IF d <= 0 THEN d + 7 ELSE d
    IN  Instant(now.day + days_ahead, hour, minute)

\* get_next_thursday: the same computation on GAME_DAY and GAME_TIME
get_next_thursday(now) ==
    LET d == GAME_DAY - Weekday(now)
        days_ahead == IF d <= 0 THEN d + 7 ELSE d
    IN  Instant(now.day + days_ahead, GAME_TIME[1], GAME_TIME[2])

\* an argument the command was called without
NoTime == TimeString("none", 0, 0, "")

\* strftime("%Y-%m-%d") of an instant, and the dict setup_game stores as
\* custom_game_time (day, hour, minute, timezone, isoformat of the instant)
DateString(t) == "day" \o ToString(t.day)
CustomGameTime(game_day, hour, minute, timezone, t) ==
    ToString(game_day) \o "," \o ToString(hour) \o ":" \o ToString(minute)
        \o "," \o timezone \o "," \o DateString(t) \o "T" \o ToString(t.hour)
        \o ":" \o ToString(t.minute)

\* what the commands of the model are called with, and when
SetupNows == {Instant(3, 12, 0), Instant(4, 12, 0)}
SetupDays == {NoneStr, "thu", "funday"}
SetupTimes == {NoTime, TimeString("h", 7, 0, ""), TimeString("hm", 25, 0, "")}
SetupTimezones == {NoneStr, "Mars/Olympus"}

\* the (weekday, time, timezone) rules the valid calls give
SetupRules ==
    {r \in {<<IF day = NoneStr THEN GAME_DAY ELSE parse_day_input(day),
              IF time = NoTime THEN Parsed(GAME_TIME[1], GAME_TIME[2])
              ELSE parse_time_input(time),
              IF timezone = NoneStr THEN TIMEZONE ELSE timezone>> :
                day \in SetupDays, time \in SetupTimes, timezone \in SetupTimezones} :
        r[1] # -1 /\ r[2].ok /\ r[3] \in KnownTimezones}

\* ------------------------------------------------------------ game_data.json
\* JSON text of the scalars: None is null, an int its decimal digits, a bool
\* true / false, a str is quoted, the custom_game_time dict is braced
DumpInt(n) == ToString(n)
DumpId(id) == IF id = NoneId THEN "null" ELSE ToString(id)
\* str(b) in place of the JSON literal
DumpBool_Python(b) == IF b THEN "True" ELSE "False"

DumpBool(b) == IF b THEN "true" ELSE "false"
DumpStr(x) == IF x = NoneStr THEN "null" ELSE "\"" \o x \o "\""
DumpDict(x) == "{" \o x \o "}"

ParseInt(t) == CHOOSE n \in 0..MaxInt : ToString(n) = t
ParseId(t) == IF t = "null" THEN NoneId ELSE ParseInt(t)
ParseBool(t) == (t = "true")
\* the strings the store holds for week_of and custom_game_time
WeekOfValues ==
    {"week"} \cup {DateString(get_next_game_time(now, r[1], r[2].hour, r[2].minute)) :
                      now \in SetupNows, r \in SetupRules}
CustomGameTimes ==
    {"thu-19:30"}
        \cup {CustomGameTime(r[1], r[2].hour, r[2].minute, r[3],
                             get_next_game_time(now, r[1], r[2].hour, r[2].minute)) :
                 now \in SetupNows, r \in SetupRules}
ParseStr(t) == IF t = "null" THEN NoneStr ELSE CHOOSE x \in WeekOfValues : DumpStr(x) = t
ParseDict(t) == CHOOSE x \in CustomGameTimes : DumpDict(x) = t

\* json.dump(game_data, f): the text of the players array and the other
\* members of the object, a key the dict does not have being left out
json_dump(gd) ==
    [players |-> [i \in 1..Len(gd.players) |->
                    [user_id |-> DumpInt(gd.players[i].user_id),
                     main_count |-> DumpInt(gd.players[i].main_count),
                     traveler_count |-> DumpInt(gd.players[i].traveler_count),
                     storyteller |-> DumpBool(gd.players[i].storyteller),
                     hangout |-> DumpBool(gd.players[i].hangout)]],
     members |-> {<<"message_id", DumpId(gd.message_id)>>,
                  <<"channel_id", DumpId(gd.channel_id)>>,
                  <<"event_id", DumpId(gd.event_id)>>,
                  <<"week_of", DumpStr(gd.week_of)>>}
                 \cup (IF gd.custom_game_time = Absent THEN {}
                       ELSE {<<"custom_game_time", DumpDict(gd.custom_game_time)>>})]

HasMember(text, key) == \E m \in text.members : m[1] = key
Member(text, key) == (CHOOSE m \in text.members : m[1] = key)[2]

\* json.load(f) followed by game_data.update(loaded_data): every key of the
\* file replaces the value the dict has, the other keys keep theirs
json_load_update(gd, text) ==
    [players |-> [i \in 1..Len(text.players) |->
                    [user_id |-> ParseInt(text.players[i].user_id),
                     main_count |-> ParseInt(text.players[i].main_count),
                     traveler_count |-> ParseInt(text.players[i].traveler_count),
                     storyteller |-> ParseBool(text.players[i].storyteller),
                     hangout |-> ParseBool(text.players[i].hangout)]],
     message_id |-> IF HasMember(text, "message_id")
                    THEN ParseId(Member(text, "message_id")) ELSE gd.message_id,
     channel_id |-> IF HasMember(text, "channel_id")
                    THEN ParseId(Member(text, "channel_id")) ELSE gd.channel_id,
     event_id |-> IF HasMember(text, "event_id")
                  THEN ParseId(Member(text, "event_id")) ELSE gd.event_id,
     week_of |-> IF HasMember(text, "week_of")
                 THEN ParseStr(Member(text, "week_of")) ELSE gd.week_of,
     custom_game_time |-> IF HasMember(text, "custom_game_time")
                          THEN ParseDict(Member(text, "custom_game_time"))
                          ELSE gd.custom_game_time]

\* the file game_data.json: absent, unreadable as JSON, or a snapshot's text
File(status, text) == [status |-> status, text |-> text]

\* save_game_data: json.dump(game_data) replaces the file
save_game_data(gd) == File("ok", json_dump(gd))

\* the file's text reaches game_data.update whatever the state of the file
load_game_data_Unchecked(gd, file) ==
    json_load_update(gd, file.text)

\* load_game_data: nothing when the file does not exist, the exception of
\* json.load is caught, else the loaded dict updates game_data
load_game_data(gd, file) ==
    IF file.status = "ok" THEN json_load_update(gd, file.text) ELSE gd

\* the process after on_ready has restored game_data.json of a set-up game
Init ==
    /\ \E ps \in InitialRosters :
          /\ disk = save_game_data(GameData(ps))
          /\ game_data = load_game_data(DefaultGameData, disk)
    /\ reactions = [u \in Users |-> {}]
    /\ queue = <<>>
    /\ tasks = <<>>
    /\ last = NoLast
    /\ manage_messages \in BOOLEAN

\* ------------------------------------------------------------ collaborators
\* safe_remove_reaction: the reactions it takes away from the user upstream
safe_remove_reaction(active, emoji, perm) ==
    IF perm /\ emoji \in active THEN {emoji} ELSE {}

\* the other reactions of the group are left on the message
remove_user_reactions_from_group_Kept(active, group_emojis, perm) == {}

\* remove_user_reactions_from_group: the reactions it takes away upstream
remove_user_reactions_from_group(active, group_emojis, perm) ==
    IF perm THEN active \cap group_emojis ELSE {}

\* the reaction-remove events the gateway delivers for retracted reactions
RemovalSignals(removed, user_id, message_id) ==
    LET s == SelectSeq(MessageReactions, LAMBDA e : e \in removed)
    IN  [i \in 1..Len(s) |-> Signal("remove", user_id, s[i], message_id)]

\* the removal clears the count whatever the user still has active
FirstRemaining_Cleared(active, group_emojis) == NoEmoji

\* the first reaction of the group, in message.reactions order, the user has
FirstRemaining(active, group_emojis) ==
    LET s == SelectSeq(MessageReactions,
                       LAMBDA e : e \in group_emojis /\ e \in active)
    IN  IF s = <<>> THEN NoEmoji ELSE s[1]

\* ------------------------------------------------------------ on_reaction_add
\* new_total <= MAX
FitsCapacity(current_total, current_player, new_count, max) ==
    current_total - current_player + new_count <= max

\* available_spots of the rejection message
AvailableSpots(current_total, current_player, max) ==
    max - (current_total - current_player)

\* the weight of the selection is added to the stored one
SetMainCount_Added(ps, user_id, n) ==
    [ps EXCEPT ![find_player(ps, user_id) + 1].main_count = @ + n]

SetMainCount(ps, user_id, n) ==
    [ps EXCEPT ![find_player(ps, user_id) + 1].main_count = n]

\* the traveler weight lands in the main count
SetTravelerCount_IntoMain(ps, user_id, n) ==
    [ps EXCEPT ![find_player(ps, user_id) + 1].main_count = n]

SetTravelerCount(ps, user_id, n) ==
    [ps EXCEPT ![find_player(ps, user_id) + 1].traveler_count = n]

SetStoryteller(ps, user_id, b) ==
    [ps EXCEPT ![find_player(ps, user_id) + 1].storyteller = b]

SetHangout(ps, user_id, b) ==
    [ps EXCEPT ![find_player(ps, user_id) + 1].hangout = b]

\* the storyteller count is compared with <= : a second storyteller is taken
AddBranch_SecondStoryteller(ps1, user_id, emoji) ==
    LET player == PlayerOf(ps1, user_id) IN
    IF emoji = STORYTELLER_EMOJI
    THEN IF player.storyteller THEN "storyteller_already"
         ELSE IF get_total_storyteller_count(ps1) <= MAX_STORYTELLERS
              THEN "storyteller_take" ELSE "storyteller_full"
    ELSE IF emoji = HANGOUT_EMOJI THEN "hangout"
    ELSE IF emoji \in Range(ALL_MAIN_EMOJIS)
    THEN IF FitsCapacity(get_total_main_count(ps1), player.main_count,
                         get_guest_count_from_emoji(emoji, "main"), MAX_MAIN_PLAYERS)
         THEN "main_accept" ELSE "main_reject"
    ELSE IF emoji = SEAL_EMOJI THEN "seal"
    ELSE IF emoji \in Range(ALL_TRAVELER_EMOJIS)
    THEN IF FitsCapacity(get_total_traveler_count(ps1), player.traveler_count,
                         get_guest_count_from_emoji(emoji, "traveler"), MAX_TRAVELERS)
         THEN "traveler_accept" ELSE "traveler_reject"
    ELSE "other"

\* the branch on_reaction_add takes once the entry exists
AddBranch(ps1, user_id, emoji) ==
    LET player == PlayerOf(ps1, user_id) IN
    IF emoji = STORYTELLER_EMOJI
    THEN IF player.storyteller THEN "storyteller_already"
         ELSE IF get_total_storyteller_count(ps1) < MAX_STORYTELLERS
              THEN "storyteller_take" ELSE "storyteller_full"
    ELSE IF emoji = HANGOUT_EMOJI THEN "hangout"
    ELSE IF emoji \in Range(ALL_MAIN_EMOJIS)
    THEN IF FitsCapacity(get_total_main_count(ps1), player.main_count,
                         get_guest_count_from_emoji(emoji, "main"), MAX_MAIN_PLAYERS)
         THEN "main_accept" ELSE "main_reject"
    ELSE IF emoji = SEAL_EMOJI THEN "seal"
    ELSE IF emoji \in Range(ALL_TRAVELER_EMOJIS)
    THEN IF FitsCapacity(get_total_traveler_count(ps1), player.traveler_count,
                         get_guest_count_from_emoji(emoji, "traveler"), MAX_TRAVELERS)
         THEN "traveler_accept" ELSE "traveler_reject"
    ELSE "other"

\* what a handler leaves behind: the players list, whether and what it saved,
\* the reactions it retracted upstream and its log entry
Outcome(ps, saves, saved, removed, lg) ==
    [players |-> ps, saves |-> saves, saved |-> saved, removed |-> removed, last |-> lg]

\* the count is written only when the other reactions could be retracted
AcceptSelection_OnlyIfRetracted(ps, sig, group, active, perm, detached, dms) ==
    LET user_id == sig.user_id
        emoji == sig.emoji
        group_emojis == IF group = "main" THEN ALL_MAIN_EMOJIS ELSE ALL_TRAVELER_EMOJIS
        new_count == get_guest_count_from_emoji(emoji, group)
        removed == remove_user_reactions_from_group(
                       active, Range(group_emojis) \ {emoji}, perm)
        written == IF detached \/ ~perm THEN ps
                   ELSE IF group = "main" THEN SetMainCount(ps, user_id, new_count)
                   ELSE SetTravelerCount(ps, user_id, new_count)
    IN  Outcome(CleanUpEmptyPlayers(written), TRUE, written, removed,
                Last("add", user_id, emoji, "accepted", 0, dms))

\* the accepted main / traveler selection after the check: retract the user's
\* other reactions of the group, write the count (into the dict `player` refers
\* to, which a clean-up may have dropped from the list meanwhile), save, clean up
AcceptSelection(ps, sig, group, active, perm, detached, dms) ==
    LET user_id == sig.user_id
        emoji == sig.emoji
        group_emojis == IF group = "main" THEN ALL_MAIN_EMOJIS ELSE ALL_TRAVELER_EMOJIS
        new_count == get_guest_count_from_emoji(emoji, group)
        removed == remove_user_reactions_from_group(
                       active, Range(group_emojis) \ {emoji}, perm)
        written == IF detached THEN ps
                   ELSE IF group = "main" THEN SetMainCount(ps, user_id, new_count)
                   ELSE SetTravelerCount(ps, user_id, new_count)
    IN  Outcome(CleanUpEmptyPlayers(written), TRUE, written, removed,
                Last("add", user_id, emoji, "accepted", 0, dms))

\* the count is written before the capacity check rejects the selection
RejectSelection_Written(ps1, sig, group, active, perm, dms) ==
    LET user_id == sig.user_id
        emoji == sig.emoji
        player == PlayerOf(ps1, user_id)
        total == IF group = "main" THEN get_total_main_count(ps1)
                 ELSE get_total_traveler_count(ps1)
        prior == IF group = "main" THEN player.main_count ELSE player.traveler_count
        max == IF group = "main" THEN MAX_MAIN_PLAYERS ELSE MAX_TRAVELERS
        removed == safe_remove_reaction(active, emoji, perm)
        written == IF group = "main"
                   THEN SetMainCount(ps1, user_id, get_guest_count_from_emoji(emoji, group))
                   ELSE SetTravelerCount(ps1, user_id,
                                         get_guest_count_from_emoji(emoji, group))
    IN  Outcome(written, FALSE, written, removed,
                Last("add", user_id, emoji, "rejected",
                     AvailableSpots(total, prior, max), dms \cup {"not_enough_spots"}))

\* the rejected main / traveler selection: retract it, tell the user, return
RejectSelection(ps1, sig, group, active, perm, dms) ==
    LET user_id == sig.user_id
        emoji == sig.emoji
        player == PlayerOf(ps1, user_id)
        total == IF group = "main" THEN get_total_main_count(ps1)
                 ELSE get_total_traveler_count(ps1)
        prior == IF group = "main" THEN player.main_count ELSE player.traveler_count
        max == IF group = "main" THEN MAX_MAIN_PLAYERS ELSE MAX_TRAVELERS
        removed == safe_remove_reaction(active, emoji, perm)
    IN  Outcome(ps1, FALSE, ps1, removed,
                Last("add", user_id, emoji, "rejected",
                     AvailableSpots(total, prior, max), dms \cup {"not_enough_spots"}))

\* the branches of on_reaction_add that run to their end without suspending
\* between reading and writing the roster
AddDirect(ps1, sig, br, active, perm, dm_ok, dms) ==
    LET user_id == sig.user_id
        emoji == sig.emoji
    IN  CASE br = "storyteller_already" ->
               Outcome(CleanUpEmptyPlayers(ps1), TRUE, ps1, {},
                       Last("add", user_id, emoji, "noop", 0, dms))
          [] br = "storyteller_take" ->
               LET w == SetStoryteller(ps1, user_id, TRUE)
               IN  Outcome(CleanUpEmptyPlayers(w), TRUE, w, {},
                           Last("add", user_id, emoji, "accepted", 0, dms))
          [] br = "storyteller_full" ->
               LET removed == safe_remove_reaction(active, emoji, perm)
               IN  Outcome(ps1, FALSE, ps1, removed,
                           Last("add", user_id, emoji, "rejected", 0,
                                dms \cup {"storyteller_taken"}))
          [] br = "hangout" ->
               LET w == SetHangout(ps1, user_id, TRUE)
               IN  Outcome(CleanUpEmptyPlayers(w), TRUE, w, {},
                           Last("add", user_id, emoji, "accepted", 0, dms))
          [] br = "main_reject" -> RejectSelection(ps1, sig, "main", active, perm, dms)
          [] br = "traveler_reject" ->
               RejectSelection(ps1, sig, "traveler", active, perm, dms)
          [] br = "seal" ->
               \* the GIF goes out by DM and the reaction is retracted; when the DM
               \* is refused the channel gets a temporary message and nothing is retracted
               LET removed == IF dm_ok THEN safe_remove_reaction(active, emoji, perm)
                              ELSE {}
               IN  Outcome(ps1, FALSE, ps1, removed,
                           Last("add", user_id, emoji, "side_effect", 0,
                                dms \cup {"seal"}))
          [] OTHER ->
               Outcome(CleanUpEmptyPlayers(ps1), FALSE, ps1, {},
                       Last("add", user_id, emoji, "unrecognized", 0, dms))

\* on_reaction_add run from its first line to its return
ReactionAdd(ps, sig, active, perm, dm_ok) ==
    LET user_id == sig.user_id
        ps1 == FindOrCreate(ps, user_id)
        br == AddBranch(ps1, user_id, sig.emoji)
        dms == IF perm THEN {} ELSE {"permission_warning"}
    IN  IF br = "main_accept"
        THEN AcceptSelection(ps1, sig, "main", active, perm, FALSE, dms)
        ELSE IF br = "traveler_accept"
        THEN AcceptSelection(ps1, sig, "traveler", active, perm, FALSE, dms)
        ELSE AddDirect(ps1, sig, br, active, perm, dm_ok, dms)

\* the error of event.edit leaves update_discord_event
update_discord_event_Unguarded(event_id, event_ok) ==
    [steps |-> IF event_id = NoneId THEN <<>>
               ELSE IF event_ok THEN <<"mirror">> ELSE <<"mirror_failed">>,
     raised |-> event_id # NoneId /\ ~event_ok]

\* update_discord_event: nothing without an event id; an error of event.edit is
\* caught and printed
update_discord_event(event_id, event_ok) ==
    [steps |-> IF event_id = NoneId THEN <<>>
               ELSE IF event_ok THEN <<"mirror">> ELSE <<"mirror_failed">>,
     raised |-> FALSE]

\* the event is updated before the summary is edited
RenderAndMirror_MirrorFirst(event_id, edit_ok, event_ok) ==
    LET m == update_discord_event(event_id, event_ok)
    IN  IF ~edit_ok THEN [steps |-> m.steps \o <<"render_failed">>, raised |-> TRUE]
        ELSE [steps |-> m.steps \o <<"render">>, raised |-> m.raised]

\* message.edit(embed=...) and, when it went through, the event update
RenderAndMirror(event_id, edit_ok, event_ok) ==
    IF ~edit_ok THEN [steps |-> <<"render_failed">>, raised |-> TRUE]
    ELSE LET m == update_discord_event(event_id, event_ok)
         IN  [steps |-> <<"render">> \o m.steps, raised |-> m.raised]

\* the summary is rendered after the seal as after a selection
AddFinish_RenderAfterSeal(r, event_id, dm_ok, edit_ok, event_ok) ==
    LET t == RenderAndMirror(event_id, edit_ok, event_ok)
        lg == r.last
    IN  [r EXCEPT !.last =
           IF lg.outcome \in {"accepted", "noop", "unrecognized", "side_effect"}
           THEN [lg EXCEPT !.steps = (IF r.saves THEN <<"save">> ELSE <<>>)
                                       \o <<"prune">> \o t.steps,
                           !.raised = t.raised]
           ELSE IF lg.outcome = "rejected"
           THEN [lg EXCEPT !.dms = IF dm_ok THEN @ ELSE {}, !.raised = ~dm_ok]
           ELSE [lg EXCEPT !.dms = IF dm_ok THEN @ ELSE {}]]

\* the end of on_reaction_add: the branches that do not return go on to the
\* clean-up, the render and the event update, none of them guarded; the
\* rejecting branches end with a DM whose failure leaves the handler
AddFinish(r, event_id, dm_ok, edit_ok, event_ok) ==
    LET t == RenderAndMirror(event_id, edit_ok, event_ok)
        lg == r.last
    IN  [r EXCEPT !.last =
           IF lg.outcome \in {"accepted", "noop", "unrecognized"}
           THEN [lg EXCEPT !.steps = (IF r.saves THEN <<"save">> ELSE <<>>)
                                       \o <<"prune">> \o t.steps,
                           !.raised = t.raised]
           ELSE IF lg.outcome = "rejected"
           THEN [lg EXCEPT !.dms = IF dm_ok THEN @ ELSE {}, !.raised = ~dm_ok]
           ELSE [lg EXCEPT !.dms = IF dm_ok THEN @ ELSE {}]]

\* the removal returns once the file is written, the summary is not republished
RemoveFinish_NoRender(r, event_id, edit_ok, event_ok) ==
    LET lg == r.last
    IN  [r EXCEPT !.last =
           IF lg.outcome = "applied"
           THEN [lg EXCEPT !.steps = <<"prune", "save">>]
           ELSE lg]

\* the end of on_raw_reaction_remove: clean up, save, then render and event
\* update inside a try
RemoveFinish(r, event_id, edit_ok, event_ok) ==
    LET t == RenderAndMirror(event_id, edit_ok, event_ok)
        lg == r.last
    IN  [r EXCEPT !.last =
           IF lg.outcome = "applied"
           THEN [lg EXCEPT !.steps = <<"prune", "save">> \o t.steps]
           ELSE lg]

\* ------------------------------------------------------------ on_raw_reaction_remove
\* on_raw_reaction_remove once the message is fetched: scan the user's remaining
\* reactions, write the entry `player` refers to, clean up, save
ReactionRemoveFinish(ps, sig, active, detached) ==
    LET user_id == sig.user_id
        emoji == sig.emoji
        group == IF emoji \in Range(ALL_MAIN_EMOJIS) THEN "main"
                 ELSE IF emoji \in Range(ALL_TRAVELER_EMOJIS) THEN "traveler"
                 ELSE IF emoji = STORYTELLER_EMOJI THEN "storyteller"
                 ELSE IF emoji = HANGOUT_EMOJI THEN "hangout"
                 ELSE "none"
        group_emojis == CASE group = "main" -> Range(ALL_MAIN_EMOJIS)
                          [] group = "traveler" -> Range(ALL_TRAVELER_EMOJIS)
                          [] group = "storyteller" -> {STORYTELLER_EMOJI}
                          [] OTHER -> {}
        current == FirstRemaining(active, group_emojis)
        new_count == IF current = NoEmoji THEN 0
                     ELSE IF group = "storyteller" THEN 1
                     ELSE get_guest_count_from_emoji(current, group)
        prior == CASE group = "main" -> StoredMain(ps, user_id)
                   [] group = "traveler" -> StoredTraveler(ps, user_id)
                   [] group = "storyteller" ->
                        IF StoredStoryteller(ps, user_id) THEN 1 ELSE 0
                   [] group = "hangout" -> IF StoredHangout(ps, user_id) THEN 1 ELSE 0
                   [] OTHER -> 0
        total == CASE group = "main" -> get_total_main_count(ps)
                   [] group = "traveler" -> get_total_traveler_count(ps)
                   [] OTHER -> 0
        written ==
            IF detached THEN ps
            ELSE CASE group = "main" -> SetMainCount(ps, user_id, new_count)
                   [] group = "traveler" -> SetTravelerCount(ps, user_id, new_count)
                   [] group = "storyteller" ->
                        IF current = NoEmoji THEN SetStoryteller(ps, user_id, FALSE)
                        ELSE ps
                   [] group = "hangout" -> SetHangout(ps, user_id, FALSE)
                   [] OTHER -> ps
        cleaned == CleanUpEmptyPlayers(written)
    IN  Outcome(cleaned, TRUE, cleaned, {},
                Last("remove", user_id, emoji, "applied", 0, {}))

NoEntry(ps, sig) ==
    Outcome(ps, FALSE, ps, {},
            Last("remove", sig.user_id, sig.emoji, "no_entry", 0, {}))

\* on_raw_reaction_remove run from its first line to its return
ReactionRemove(ps, sig, active) ==
    IF find_player(ps, sig.user_id) = -1 THEN NoEntry(ps, sig)
    ELSE ReactionRemoveFinish(ps, sig, active, FALSE)

\* ------------------------------------------------------------ steps
\* a suspended handler's `player` dict is no longer in the list once a clean-up
\* (a new list of the kept dicts) has dropped it
Detach(ts, ps) ==
    [i \in 1..Len(ts) |->
        [ts[i] EXCEPT !.detached = @ \/ find_player(ps, ts[i].sig.user_id) = -1]]

RemoveAt(s, i) == SubSeq(s, 1, i - 1) \o SubSeq(s, i + 1, Len(s))

\* the effect of a handler's outcome r on the state, rest being the queue and
\* the suspended handlers it leaves
Apply(r, user_id, rest_queue, rest_tasks) ==
    /\ game_data' = [game_data EXCEPT !.players = r.players]
    /\ disk' = IF r.saves
               THEN save_game_data([game_data EXCEPT !.players = r.saved])
               ELSE disk
    /\ reactions' = [reactions EXCEPT ![user_id] = @ \ r.removed]
    /\ queue' = rest_queue \o RemovalSignals(r.removed, user_id, game_data.message_id)
    /\ tasks' = Detach(rest_tasks, r.players)
    /\ last' = r.last
    /\ UNCHANGED manage_messages

\* the bot's own user, whose reactions seed the signup message
BotUser == 900

\* no reaction event is handled as coming from a bot
IsBot_Nobody(user_id) == FALSE

\* user.bot
IsBot(user_id) == user_id = BotUser

\* a handler that returns at once: a bot's reaction, the wrong message, or the
\* permission warning's DM raised out of the handler
Return(sig, outcome, dms) ==
    /\ queue' = Tail(queue)
    /\ last' = [Last(sig.kind, sig.user_id, sig.emoji, outcome, 0, dms)
                  EXCEPT !.raised = (outcome = "raised")]
    /\ UNCHANGED <<game_data, disk, reactions, tasks, manage_messages>>

\* the emojis the users pick
InputEmojis == {"swords", "lightning", "luggage", "ship", STORYTELLER_EMOJI}

\* a user adds a reaction to the signup message
UserReact(u, e) ==
    /\ e \notin reactions[u]
    /\ Cardinality(reactions[u]) < MaxActive
    /\ Len(queue) < MaxQueue
    /\ reactions' = [reactions EXCEPT ![u] = @ \cup {e}]
    /\ queue' = Append(queue, Signal("add", u, e, SignupMessage))
    /\ last' = NoLast
    /\ UNCHANGED <<game_data, disk, tasks, manage_messages>>

\* a user takes a reaction back
UserUnreact(u, e) ==
    /\ e \in reactions[u]
    /\ Len(queue) < MaxQueue
    /\ reactions' = [reactions EXCEPT ![u] = @ \ {e}]
    /\ queue' = Append(queue, Signal("remove", u, e, SignupMessage))
    /\ last' = NoLast
    /\ UNCHANGED <<game_data, disk, tasks, manage_messages>>

\* the gateway delivers once more the add event the bot handled last
Redeliver ==
    /\ queue = <<>>
    /\ tasks = <<>>
    /\ last.op = "add"
    /\ last.emoji \in reactions[last.user_id]
    /\ queue' = <<Signal("add", last.user_id, last.emoji, SignupMessage)>>
    /\ UNCHANGED <<game_data, disk, reactions, tasks, last, manage_messages>>

\* the handler does not compare the message of the reaction with the bound one
HandleReactionAdd_AnyMessage(dm_ok, edit_ok, event_ok) ==
    /\ queue # <<>>
    /\ Head(queue).kind = "add"
    /\ tasks = <<>>
    /\ LET sig == Head(queue) IN
          IF IsBot(sig.user_id) THEN Return(sig, "bot", {})
          ELSE IF ~manage_messages /\ ~dm_ok
          THEN Return(sig, "raised", {})
          ELSE Apply(AddFinish(ReactionAdd(game_data.players, sig,
                                           reactions[sig.user_id],
                                           manage_messages, dm_ok),
                               game_data.event_id, dm_ok, edit_ok, event_ok),
                     sig.user_id, Tail(queue), <<>>)

\* on_reaction_add, the whole handler in one step, given whether the DMs to
\* the user, the edit of the signup message and the edit of the event succeed
HandleReactionAdd(dm_ok, edit_ok, event_ok) ==
    /\ queue # <<>>
    /\ Head(queue).kind = "add"
    /\ tasks = <<>>
    /\ LET sig == Head(queue) IN
          IF IsBot(sig.user_id) THEN Return(sig, "bot", {})
          ELSE IF sig.message_id # game_data.message_id THEN Return(sig, "ignored", {})
          ELSE IF ~manage_messages /\ ~dm_ok
          THEN Return(sig, "raised", {})
          ELSE Apply(AddFinish(ReactionAdd(game_data.players, sig,
                                           reactions[sig.user_id],
                                           manage_messages, dm_ok),
                               game_data.event_id, dm_ok, edit_ok, event_ok),
                     sig.user_id, Tail(queue), <<>>)

\* on_raw_reaction_remove, the whole handler in one step
HandleRawReactionRemove(edit_ok, event_ok) ==
    /\ queue # <<>>
    /\ Head(queue).kind = "remove"
    /\ tasks = <<>>
    /\ LET sig == Head(queue) IN
          IF IsBot(sig.user_id) THEN Return(sig, "bot", {})
          ELSE IF sig.message_id # game_data.message_id THEN Return(sig, "ignored", {})
          ELSE Apply(RemoveFinish(ReactionRemove(game_data.players, sig,
                                                 reactions[sig.user_id]),
                                  game_data.event_id, edit_ok, event_ok),
                     sig.user_id, Tail(queue), <<>>)

\* the handlers with the signup message and the event reachable
OnReactionAdd == \E dm_ok \in BOOLEAN : HandleReactionAdd(dm_ok, TRUE, TRUE)

OnRawReactionRemove == HandleRawReactionRemove(TRUE, TRUE)

Next ==
    \/ \E u \in Users, e \in InputEmojis : UserReact(u, e)
    \/ \E u \in Users, e \in InputEmojis : UserUnreact(u, e)
    \/ Redeliver
    \/ OnReactionAdd
    \/ OnRawReactionRemove

\* handlers reconciled one at a time, each run to completion
Spec == Init /\ [][Next]_vars

\* ------------------------------------------------------------ commands and restarts
\* the scheduled event setup_game created, and a message that is not the signup
SignupEvent == 1
OtherMessage == 2

\* the set-up game with its scheduled event bound
WithEvent(gd) == [gd EXCEPT !.event_id = SignupEvent]

\* the process after on_ready, the setup having created the event or not
InitLifecycle ==
    /\ \E ps \in InitialRosters, has_event \in BOOLEAN :
          /\ disk = save_game_data(IF has_event THEN WithEvent(GameData(ps))
                                   ELSE GameData(ps))
          /\ game_data = load_game_data(DefaultGameData, disk)
    /\ reactions = [u \in Users |-> {}]
    /\ queue = <<>>
    /\ tasks = <<>>
    /\ last = NoLast
    /\ manage_messages \in BOOLEAN

\* the emojis the users pick: one token of every category
CategoryEmojis == {"swords", "luggage", STORYTELLER_EMOJI, HANGOUT_EMOJI}

\* the emojis the users pick while the game is reset and the process restarted
LifecycleEmojis == {"lightning", HANGOUT_EMOJI}

\* the users of this specification act when the bot has handled every event
Idle == queue = <<>> /\ tasks = <<>>

\* a user adds or removes a reaction on a message that is not the signup message
ReactElsewhere(u, kind, e) ==
    /\ Idle
    /\ queue' = Append(queue, Signal(kind, u, e, OtherMessage))
    /\ last' = NoLast
    /\ UNCHANGED <<game_data, disk, reactions, tasks, manage_messages>>

\* the reset leaves the event id bound
reset_game_KeepingEvent ==
    /\ tasks = <<>>
    /\ game_data' = [game_data EXCEPT !.players = <<>>, !.message_id = NoneId,
                                      !.channel_id = NoneId, !.week_of = NoneStr]
    /\ disk' = save_game_data(game_data')
    /\ last' = [Last("reset_game", 0, NoEmoji, "done", 0, {})
                  EXCEPT !.steps = <<"save">>]
    /\ UNCHANGED <<reactions, queue, tasks, manage_messages>>

\* /reset_game by a member with Manage Events
reset_game ==
    /\ tasks = <<>>
    /\ game_data' = [game_data EXCEPT !.players = <<>>, !.message_id = NoneId,
                                      !.channel_id = NoneId, !.event_id = NoneId,
                                      !.week_of = NoneStr]
    /\ disk' = save_game_data(game_data')
    /\ last' = [Last("reset_game", 0, NoEmoji, "done", 0, {})
                  EXCEPT !.steps = <<"save">>]
    /\ UNCHANGED <<reactions, queue, tasks, manage_messages>>

\* the file is lost, or a write that was cut short leaves text json.load rejects
DamageFile(status) ==
    /\ disk.status = "ok"
    /\ disk' = File(status, disk.text)
    /\ last' = NoLast
    /\ UNCHANGED <<game_data, reactions, queue, tasks, manage_messages>>

\* the process ends (SIGTERM / SIGINT save game_data first, a crash does not)
\* and a new one starts: on_ready loads the file into the default game_data;
\* the events not yet handled are gone with the old process
Restart(graceful) ==
    /\ tasks = <<>>
    /\ LET file == IF graceful THEN save_game_data(game_data) ELSE disk IN
          /\ disk' = file
          /\ game_data' = load_game_data(DefaultGameData, file)
    /\ queue' = <<>>
    /\ last' = Last("restart", 0, NoEmoji, IF graceful THEN "graceful" ELSE "crash",
                     0, {})
    /\ UNCHANGED <<reactions, tasks, manage_messages>>

\* the handlers with every outcome of the DMs, the message edit and the event edit
OnReactionAddEnv ==
    \E dm_ok \in BOOLEAN, edit_ok \in BOOLEAN, event_ok \in BOOLEAN :
        HandleReactionAdd(dm_ok, edit_ok, event_ok)

OnRawReactionRemoveEnv ==
    \E edit_ok \in BOOLEAN, event_ok \in BOOLEAN :
        HandleRawReactionRemove(edit_ok, event_ok)

NextCategories ==
    \/ \E u \in Users, e \in CategoryEmojis : Idle /\ UserReact(u, e)
    \/ \E u \in Users, e \in CategoryEmojis : Idle /\ UserUnreact(u, e)
    \/ OnReactionAddEnv
    \/ OnRawReactionRemoveEnv

\* the handlers one at a time on tokens of all four categories, with the
\* failures of the collaborators
SpecCategories == InitLifecycle /\ [][NextCategories]_vars

NextLifecycle ==
    \/ \E u \in Users, e \in LifecycleEmojis : Idle /\ UserReact(u, e)
    \/ \E u \in Users, e \in LifecycleEmojis : Idle /\ UserUnreact(u, e)
    \/ \E u \in Users, kind \in {"add", "remove"}, e \in LifecycleEmojis :
          ReactElsewhere(u, kind, e)
    \/ OnReactionAdd
    \/ OnRawReactionRemove
    \/ reset_game
    \/ \E status \in {"missing", "malformed"} : DamageFile(status)
    \/ \E graceful \in BOOLEAN : Restart(graceful)

\* the handlers one at a time, with the reset command, the loss of the file
\* and the restarts of the process
SpecLifecycle == InitLifecycle /\ [][NextLifecycle]_vars

\* the timezone name is not looked up before the game is stored
SetupOutcome_NoTimezoneCheck(allowed, game_day, game_time, game_timezone, failure) ==
    IF ~allowed THEN "forbidden"
    ELSE IF game_day = -1 THEN "invalid_day"
    ELSE IF ~game_time.ok THEN "invalid_time"
    ELSE failure

\* ------------------------------------------------------------ slash commands
\* how far setup_game gets: the replies that end it before anything is
\* stored, the calls to Discord that can fail after that
SetupOutcome(allowed, game_day, game_time, game_timezone, failure) ==
    IF ~allowed THEN "forbidden"
    ELSE IF game_day = -1 THEN "invalid_day"
    ELSE IF ~game_time.ok THEN "invalid_time"
    ELSE IF game_timezone \notin KnownTimezones THEN "invalid_timezone"
    ELSE failure

\* the messages and the events Discord creates get ids never used before
LaterMessage == 3
LaterEvent == 2
NewMessage(gd) == IF gd.message_id = SignupMessage THEN LaterMessage ELSE SignupMessage
NewEvent(gd) == IF gd.event_id = SignupEvent THEN LaterEvent ELSE SignupEvent

\* the setup starts the new message with an empty roster
SetupGameData_ClearingPlayers(gd, outcome, custom_game_time, week_of) ==
    IF outcome \in {"confirmation_failed", "message_failed"}
    THEN [gd EXCEPT !.custom_game_time = custom_game_time]
    ELSE IF outcome \in {"event_failed", "done"}
    THEN [gd EXCEPT !.custom_game_time = custom_game_time,
                    !.players = <<>>,
                    !.message_id = NewMessage(gd),
                    !.channel_id = SignupChannel,
                    !.week_of = week_of,
                    !.event_id = IF outcome = "done" THEN NewEvent(gd) ELSE @]
    ELSE gd

\* game_data as setup_game leaves it: custom_game_time is stored before the
\* embeds are sent, the message is bound once it is posted, the event id once
\* the event is created
SetupGameData(gd, outcome, custom_game_time, week_of) ==
    IF outcome \in {"confirmation_failed", "message_failed"}
    THEN [gd EXCEPT !.custom_game_time = custom_game_time]
    ELSE IF outcome \in {"event_failed", "done"}
    THEN [gd EXCEPT !.custom_game_time = custom_game_time,
                    !.message_id = NewMessage(gd),
                    !.channel_id = SignupChannel,
                    !.week_of = week_of,
                    !.event_id = IF outcome = "done" THEN NewEvent(gd) ELSE @]
    ELSE gd

\* the game time that could not be read is dropped from game_data
create_signup_embed_DroppingGameTime(gd, embed_ok) ==
    [game_data |-> IF embed_ok THEN gd ELSE [gd EXCEPT !.custom_game_time = Absent],
     embed |-> IF embed_ok
               THEN [storytellers |-> get_total_storyteller_count(gd.players),
                     main |-> get_total_main_count(gd.players),
                     travelers |-> get_total_traveler_count(gd.players),
                     listed |-> {gd.players[i].user_id : i \in 1..Len(gd.players)},
                     next_game |-> gd.custom_game_time]
               ELSE [error |-> "There was an error creating the full embed."]]

\* create_signup_embed: the embed built from game_data, which it only reads;
\* the fallback embed when building it raises
create_signup_embed(gd, embed_ok) ==
    [game_data |-> gd,
     embed |-> IF embed_ok
               THEN [storytellers |-> get_total_storyteller_count(gd.players),
                     main |-> get_total_main_count(gd.players),
                     travelers |-> get_total_traveler_count(gd.players),
                     listed |-> {gd.players[i].user_id : i \in 1..Len(gd.players)},
                     next_game |-> gd.custom_game_time]
               ELSE [error |-> "There was an error creating the full embed."]]

\* /setup_game day time timezone, called at the instant now
setup_game(allowed, day, time, timezone, now, failure) ==
    /\ Idle
    /\ LET game_day == IF day = NoneStr THEN GAME_DAY ELSE parse_day_input(day)
           game_time == IF time = NoTime THEN Parsed(GAME_TIME[1], GAME_TIME[2])
                        ELSE parse_time_input(time)
           game_timezone == IF timezone = NoneStr THEN TIMEZONE ELSE timezone
           outcome == SetupOutcome(allowed, game_day, game_time, game_timezone, failure)
           next_game_time == get_next_game_time(now, game_day, game_time.hour,
                                                game_time.minute)
           gd == SetupGameData(game_data, outcome,
                               CustomGameTime(game_day, game_time.hour,
                                              game_time.minute, game_timezone,
                                              next_game_time),
                               DateString(next_game_time))
           posted == outcome \in {"event_failed", "done"}
           \* the signup embed is built once custom_game_time is stored
           embed == create_signup_embed(
                        [game_data EXCEPT !.custom_game_time = gd.custom_game_time],
                        TRUE).embed
       IN  /\ game_data' = gd
           /\ disk' = IF posted THEN save_game_data(gd) ELSE disk
           /\ reactions' = IF gd.message_id # game_data.message_id
                           THEN [u \in Users |-> {}] ELSE reactions
           /\ last' = IF posted
                      THEN [Last("setup_game", 0, NoEmoji, outcome, 0, {})
                              EXCEPT !.steps = <<"render", "save">>]
                           @@ [embed |-> embed]
                      ELSE Last("setup_game", 0, NoEmoji, outcome, 0, {})
    /\ UNCHANGED <<queue, tasks, manage_messages>>

\* the reset also drops the event the game is bound to
reset_signups_DroppingEvent(allowed, edit_ok, event_ok) ==
    /\ Idle
    /\ LET outcome == IF ~allowed THEN "forbidden"
                      ELSE IF game_data.message_id = NoneId THEN "no_game"
                      ELSE "done"
           gd == IF outcome = "done"
                 THEN [game_data EXCEPT !.players = <<>>, !.event_id = NoneId]
                 ELSE game_data
           t == RenderAndMirror(game_data.event_id, edit_ok, event_ok)
       IN  /\ game_data' = gd
           /\ disk' = IF outcome = "done" THEN save_game_data(gd) ELSE disk
           /\ last' = [Last("reset_signups", 0, NoEmoji, outcome, 0, {})
                         EXCEPT !.steps = IF outcome = "done"
                                          THEN <<"save">> \o t.steps ELSE <<>>]
    /\ UNCHANGED <<reactions, queue, tasks, manage_messages>>

\* /reset_signups: without Manage Events, or with no message bound, a reply
\* and nothing else; else the players are cleared and saved, then the summary
\* and the event are updated inside a try
reset_signups(allowed, edit_ok, event_ok) ==
    /\ Idle
    /\ LET outcome == IF ~allowed THEN "forbidden"
                      ELSE IF game_data.message_id = NoneId THEN "no_game"
                      ELSE "done"
           gd == IF outcome = "done" THEN [game_data EXCEPT !.players = <<>>]
                 ELSE game_data
           t == RenderAndMirror(game_data.event_id, edit_ok, event_ok)
       IN  /\ game_data' = gd
           /\ disk' = IF outcome = "done" THEN save_game_data(gd) ELSE disk
           /\ last' = [Last("reset_signups", 0, NoEmoji, outcome, 0, {})
                         EXCEPT !.steps = IF outcome = "done"
                                          THEN <<"save">> \o t.steps ELSE <<>>]
    /\ UNCHANGED <<reactions, queue, tasks, manage_messages>>

\* /game_status: the embed is sent to the caller; a failure of the reply is
\* caught
game_status(embed_ok, reply_ok) ==
    /\ Idle
    /\ LET r == create_signup_embed(game_data, embed_ok)
       IN  /\ game_data' = r.game_data
           /\ last' = [Last("game_status", 0, NoEmoji,
                            IF embed_ok THEN "summary" ELSE "fallback", 0, {})
                         EXCEPT !.steps = IF reply_ok THEN <<"reply">> ELSE <<>>]
                      @@ [embed |-> r.embed]
    /\ UNCHANGED <<disk, reactions, queue, tasks, manage_messages>>

\* a user adds or removes a reaction on the message the game is bound to
ReactBound(u, e) ==
    /\ Idle
    /\ game_data.message_id # NoneId
    /\ e \notin reactions[u]
    /\ Cardinality(reactions[u]) < MaxActive
    /\ reactions' = [reactions EXCEPT ![u] = @ \cup {e}]
    /\ queue' = Append(queue, Signal("add", u, e, game_data.message_id))
    /\ last' = NoLast
    /\ UNCHANGED <<game_data, disk, tasks, manage_messages>>

UnreactBound(u, e) ==
    /\ Idle
    /\ game_data.message_id # NoneId
    /\ e \in reactions[u]
    /\ reactions' = [reactions EXCEPT ![u] = @ \ {e}]
    /\ queue' = Append(queue, Signal("remove", u, e, game_data.message_id))
    /\ last' = NoLast
    /\ UNCHANGED <<game_data, disk, tasks, manage_messages>>

\* the user who reacts between the commands, and the emojis picked
CommandUsers == {1}
CommandEmojis == {"swords"}

\* the calls to Discord of setup_game that can fail, "done" when none does
SetupFailures ==
    {"done", "defer_failed", "confirmation_failed", "message_failed", "event_failed"}

\* the calls of the model: the valid ones at every instant with every
\* failure, and one call for each way of being turned down
SetupCalls ==
    {<<TRUE, day, NoTime, NoneStr, now, failure>> :
        day \in SetupDays \ {"funday"}, now \in SetupNows, failure \in SetupFailures}
      \cup {<<FALSE, NoneStr, NoTime, NoneStr, Instant(3, 12, 0), "done">>,
             <<TRUE, "funday", NoTime, NoneStr, Instant(3, 12, 0), "done">>,
             <<TRUE, "thu", TimeString("hm", 25, 0, ""), NoneStr, Instant(3, 12, 0), "done">>,
             <<TRUE, NoneStr, TimeString("h", 7, 0, ""), "Mars/Olympus",
               Instant(3, 12, 0), "done">>}

SetupGame ==
    \E c \in SetupCalls : setup_game(c[1], c[2], c[3], c[4], c[5], c[6])

ResetSignups ==
    \E allowed \in BOOLEAN, edit_ok \in BOOLEAN, event_ok \in BOOLEAN :
        reset_signups(allowed, edit_ok, event_ok)

GameStatus == \E embed_ok \in BOOLEAN, reply_ok \in BOOLEAN : game_status(embed_ok, reply_ok)

NextCommands ==
    \/ \E u \in CommandUsers, e \in CommandEmojis : ReactBound(u, e)
    \/ \E u \in CommandUsers, e \in CommandEmojis : UnreactBound(u, e)
    \/ OnReactionAdd
    \/ OnRawReactionRemove
    \/ SetupGame
    \/ ResetSignups
    \/ reset_game
    \/ GameStatus

\* the slash commands between the reactions of the users, the handlers one
\* at a time
SpecCommands == InitLifecycle /\ [][NextCommands]_vars

\* ------------------------------------------------------------ the functions on their own
\* a call of one of the pure functions: its name, its arguments and, once it
\* has returned, its result
Call(fn, args) == [op |-> "call", fn |-> fn, args |-> args, done |-> FALSE, result |-> 0]

\* the instants the clock is read at, and the rules asked for
ClockNows == {Instant(day, t[1], t[2]) : day \in 0..6, t \in {<<12, 0>>, <<19, 30>>, <<21, 0>>}}
ClockRules == {<<day, t[1], t[2]>> : day \in 0..6, t \in {<<19, 30>>, <<0, 0>>}}

\* day tokens and time strings, accepted and not
DayTokens == DOMAIN day_mapping \cup {"funday", "thrusday"}
TimeStrings ==
    {TimeString("hm", 19, 30, ""), TimeString("hm", 7, 30, ""),
     TimeString("hm", 25, 0, ""), TimeString("hm", 19, 75, ""),
     TimeString("hm12", 7, 30, "pm"), TimeString("hm12", 12, 0, "am"),
     TimeString("hm12", 12, 15, "pm"), TimeString("hm12", 13, 0, "pm"),
     TimeString("h12", 7, 0, "pm"), TimeString("h12", 0, 0, "am"),
     TimeString("h", 7, 0, ""), TimeString("h", 19, 0, ""),
     TimeString("h", 3, 0, ""), TimeString("h", 24, 0, ""),
     TimeString("junk", 0, 0, "")}

Calls ==
    {Call("get_next_game_time", <<now, r>>) : now \in ClockNows, r \in ClockRules}
      \cup {Call("get_next_thursday", <<now>>) : now \in ClockNows}
      \cup {Call("get_guest_count_from_emoji", <<e, g>>) :
              e \in AllEmojis, g \in {"main", "traveler"}}
      \cup {Call("parse_day_input", <<d>>) : d \in DayTokens}
      \cup {Call("parse_time_input", <<t>>) : t \in TimeStrings}

InitFunctions ==
    /\ game_data = DefaultGameData
    /\ disk = save_game_data(DefaultGameData)
    /\ reactions = [u \in Users |-> {}]
    /\ queue = <<>>
    /\ tasks = <<>>
    /\ manage_messages = TRUE
    /\ last \in Calls

\* the call returns
Returns(fn, result) ==
    /\ last.op = "call"
    /\ last.fn = fn
    /\ ~last.done
    /\ last' = [last EXCEPT !.done = TRUE, !.result = result]
    /\ UNCHANGED <<game_data, disk, reactions, queue, tasks, manage_messages>>

CallNextGameTime ==
    /\ last.fn = "get_next_game_time"
    /\ Returns("get_next_game_time",
               get_next_game_time(last.args[1], last.args[2][1], last.args[2][2],
                                  last.args[2][3]))

CallNextThursday ==
    /\ last.fn = "get_next_thursday"
    /\ Returns("get_next_thursday", get_next_thursday(last.args[1]))

CallGuestCount ==
    /\ last.fn = "get_guest_count_from_emoji"
    /\ Returns("get_guest_count_from_emoji",
               get_guest_count_from_emoji(last.args[1], last.args[2]))

CallParseDay ==
    /\ last.fn = "parse_day_input"
    /\ Returns("parse_day_input", parse_day_input(last.args[1]))

CallParseTime ==
    /\ last.fn = "parse_time_input"
    /\ Returns("parse_time_input", parse_time_input(last.args[1]))

NextFunctions ==
    \/ CallNextGameTime
    \/ CallNextThursday
    \/ CallGuestCount
    \/ CallParseDay
    \/ CallParseTime

\* every function called once on each of its inputs
SpecFunctions == InitFunctions /\ [][NextFunctions]_vars

\* the emojis the users pick: a main token, the seal and an emoji no branch of
\* the handlers names
TokenEmojis == {"swords", SEAL_EMOJI, OTHER_EMOJI}

NextTokens ==
    \/ \E u \in Users, e \in TokenEmojis : Idle /\ UserReact(u, e)
    \/ \E u \in Users, e \in TokenEmojis : Idle /\ UserUnreact(u, e)
    \/ OnReactionAddEnv
    \/ OnRawReactionRemoveEnv

\* the handlers one at a time on the seal and on an unknown emoji, with the
\* failures of the collaborators
SpecTokens == InitLifecycle /\ [][NextTokens]_vars

\* ------------------------------------------------------------ several reactions held
\* the reactions a user may hold at once, and the events the gateway may hold
MaxHeld == 3
MaxPending == 3

\* three reactions of the main group, the user who picks them
HeldEmojis == {MAIN_PLAYER_EMOJI, "swords", "lightning"}
HeldUsers == {1}

\* a user adds a reaction while holding others of the group
ReactHeld(u, e) ==
    /\ e \notin reactions[u]
    /\ Cardinality(reactions[u]) < MaxHeld
    /\ Len(queue) < MaxPending
    /\ reactions' = [reactions EXCEPT ![u] = @ \cup {e}]
    /\ queue' = Append(queue, Signal("add", u, e, SignupMessage))
    /\ last' = NoLast
    /\ UNCHANGED <<game_data, disk, tasks, manage_messages>>

\* a user takes one of the reactions back
UnreactHeld(u, e) ==
    /\ e \in reactions[u]
    /\ Len(queue) < MaxPending
    /\ reactions' = [reactions EXCEPT ![u] = @ \ {e}]
    /\ queue' = Append(queue, Signal("remove", u, e, SignupMessage))
    /\ last' = NoLast
    /\ UNCHANGED <<game_data, disk, tasks, manage_messages>>

NextHeld ==
    \/ \E u \in HeldUsers, e \in HeldEmojis : ReactHeld(u, e)
    \/ \E u \in HeldUsers, e \in HeldEmojis : UnreactHeld(u, e)
    \/ OnReactionAdd
    \/ OnRawReactionRemove

\* the handlers one at a time while a user holds up to three reactions of the
\* main group
SpecHeld == Init /\ [][NextHeld]_vars

\* ------------------------------------------------------------ a game set up again
\* the emojis the users pick on the signup message
SignupEmojis == {"swords", "lightning", "luggage"}

\* setup_game has just bound its message, nobody has signed up, and the bot may
\* retract reactions
InitSignups ==
    /\ game_data = GameData(<<>>)
    /\ disk = save_game_data(GameData(<<>>))
    /\ reactions = [u \in Users |-> {}]
    /\ queue = <<>>
    /\ tasks = <<>>
    /\ last = NoLast
    /\ manage_messages = TRUE

\* a user adds a reaction on the bound message, events pending or not
ReactSignup(u, e) ==
    /\ e \notin reactions[u]
    /\ Cardinality(reactions[u]) < MaxActive
    /\ Len(queue) < MaxQueue
    /\ reactions' = [reactions EXCEPT ![u] = @ \cup {e}]
    /\ queue' = Append(queue, Signal("add", u, e, game_data.message_id))
    /\ last' = NoLast
    /\ UNCHANGED <<game_data, disk, tasks, manage_messages>>

\* a user takes a reaction back
UnreactSignup(u, e) ==
    /\ e \in reactions[u]
    /\ Len(queue) < MaxQueue
    /\ reactions' = [reactions EXCEPT ![u] = @ \ {e}]
    /\ queue' = Append(queue, Signal("remove", u, e, game_data.message_id))
    /\ last' = NoLast
    /\ UNCHANGED <<game_data, disk, tasks, manage_messages>>

\* /setup_game once more, every call to Discord succeeding
SetupAgain == setup_game(TRUE, NoneStr, NoTime, NoneStr, Instant(3, 12, 0), "done")

NextSignups ==
    \/ \E u \in Users, e \in SignupEmojis : ReactSignup(u, e)
    \/ \E u \in Users, e \in SignupEmojis : UnreactSignup(u, e)
    \/ OnReactionAdd
    \/ OnRawReactionRemove
    \/ SetupAgain

\* the handlers one at a time from a fresh setup, the game set up again between
\* the signups
SpecSignups == InitSignups /\ [][NextSignups]_vars

\* ------------------------------------------------------------ the bot's own reactions
\* the signup message as setup_game leaves it: the bot holds every seeded
\* reaction, the users none
InitBots ==
    /\ \E ps \in InitialRosters :
          /\ disk = save_game_data(GameData(ps))
          /\ game_data = load_game_data(DefaultGameData, disk)
    /\ reactions = [u \in Users \cup {BotUser} |->
                       IF u = BotUser THEN Range(MessageReactions) ELSE {}]
    /\ queue = <<>>
    /\ tasks = <<>>
    /\ last = NoLast
    /\ manage_messages \in BOOLEAN

\* the gateway delivers the event of a reaction of the bot on the signup
\* message: one of the reactions setup_game seeds, or the removal of one
BotReaction(kind, e) ==
    /\ Idle
    /\ queue' = Append(queue, Signal(kind, BotUser, e, game_data.message_id))
    /\ last' = NoLast
    /\ UNCHANGED <<game_data, disk, reactions, tasks, manage_messages>>

\* the emojis the users pick next to the bot's reactions
BotEmojis == {"swords", HANGOUT_EMOJI}

NextBots ==
    \/ \E kind \in {"add", "remove"}, e \in Range(MessageReactions) : BotReaction(kind, e)
    \/ \E u \in Users, e \in BotEmojis : Idle /\ UserReact(u, e)
    \/ \E u \in Users, e \in BotEmojis : Idle /\ UserUnreact(u, e)
    \/ OnReactionAddEnv
    \/ OnRawReactionRemoveEnv

\* the handlers one at a time on the reaction events of the bot and of the users
SpecBots == InitBots /\ [][NextBots]_vars

\* ------------------------------------------------------------ interleaved handlers
\* Each event runs as a task of its own: a handler that awaits gives way to the
\* handlers of the events behind it.
\* fresh: the handler found no entry of the user and appended one
Task(kind, sig, group, dms) ==
    [kind |-> kind, sig |-> sig, group |-> group, dms |-> dms, detached |-> FALSE,
     fresh |-> find_player(game_data.players, sig.user_id) = -1]

\* the emojis the users pick in the interleaved specification
InterleavedEmojis == {"swords", HANGOUT_EMOJI}

\* on_reaction_add up to its first await after reading the roster: the branches
\* that accept a main / traveler selection suspend in the retraction of the
\* user's other reactions (reaction.users() is fetched when the bot may manage
\* messages), the count not yet written
StartReactionAdd ==
    /\ queue # <<>>
    /\ Head(queue).kind = "add"
    /\ Len(tasks) < MaxTasks
    /\ LET sig == Head(queue)
           ps1 == FindOrCreate(game_data.players, sig.user_id)
           br == AddBranch(ps1, sig.user_id, sig.emoji)
           dms == IF manage_messages THEN {} ELSE {"permission_warning"}
       IN  \E dm_ok \in BOOLEAN :
              IF IsBot(sig.user_id) THEN Return(sig, "bot", {})
              ELSE IF sig.message_id # game_data.message_id THEN Return(sig, "ignored", {})
              ELSE IF ~manage_messages /\ ~dm_ok
              THEN Return(sig, "raised", {})
              ELSE IF br \in {"main_accept", "traveler_accept"} /\ ~manage_messages
              THEN \* the group retraction returns at its permission check: no await
                   Apply(AddFinish(AcceptSelection(ps1, sig,
                                                   IF br = "main_accept" THEN "main"
                                                   ELSE "traveler",
                                                   reactions[sig.user_id],
                                                   manage_messages, FALSE, dms),
                                   game_data.event_id, dm_ok, TRUE, TRUE),
                         sig.user_id, Tail(queue), tasks)
              ELSE IF br \in {"main_accept", "traveler_accept"}
              THEN /\ game_data' = [game_data EXCEPT !.players = ps1]
                   /\ tasks' = Append(tasks,
                                      Task("add", sig,
                                           IF br = "main_accept" THEN "main"
                                           ELSE "traveler", dms))
                   /\ queue' = Tail(queue)
                   /\ UNCHANGED <<disk, reactions, last, manage_messages>>
              ELSE Apply(AddFinish(AddDirect(ps1, sig, br, reactions[sig.user_id],
                                             manage_messages, dm_ok, dms),
                                   game_data.event_id, dm_ok, TRUE, TRUE),
                         sig.user_id, Tail(queue), tasks)

\* on_reaction_add resumed after the retraction: write, save, clean up
ResumeReactionAdd(i) ==
    /\ tasks[i].kind = "add"
    /\ LET t == tasks[i] IN
       Apply(AddFinish(AcceptSelection(game_data.players, t.sig, t.group,
                                       reactions[t.sig.user_id], manage_messages,
                                       t.detached, t.dms),
                       game_data.event_id, TRUE, TRUE, TRUE),
             t.sig.user_id, queue, RemoveAt(tasks, i))

\* on_raw_reaction_remove up to the await of fetch_message
StartRawReactionRemove ==
    /\ queue # <<>>
    /\ Head(queue).kind = "remove"
    /\ Len(tasks) < MaxTasks
    /\ LET sig == Head(queue) IN
          IF IsBot(sig.user_id) THEN Return(sig, "bot", {})
          ELSE IF sig.message_id # game_data.message_id THEN Return(sig, "ignored", {})
          ELSE IF find_player(game_data.players, sig.user_id) = -1
          THEN Apply(NoEntry(game_data.players, sig), sig.user_id, Tail(queue), tasks)
          ELSE /\ tasks' = Append(tasks, Task("remove", sig, "none", {}))
               /\ queue' = Tail(queue)
               /\ UNCHANGED <<game_data, disk, reactions, last, manage_messages>>

\* on_raw_reaction_remove resumed with the fetched message
ResumeRawReactionRemove(i) ==
    /\ tasks[i].kind = "remove"
    /\ LET t == tasks[i] IN
       Apply(RemoveFinish(ReactionRemoveFinish(game_data.players, t.sig,
                                               reactions[t.sig.user_id],
                                               t.detached),
                          game_data.event_id, TRUE, TRUE),
             t.sig.user_id, queue, RemoveAt(tasks, i))

NextInterleaved ==
    \/ \E u \in Users, e \in InterleavedEmojis : UserReact(u, e)
    \/ \E u \in Users, e \in InterleavedEmojis : UserUnreact(u, e)
    \/ StartReactionAdd
    \/ \E i \in 1..Len(tasks) : ResumeReactionAdd(i)
    \/ StartRawReactionRemove
    \/ \E i \in 1..Len(tasks) : ResumeRawReactionRemove(i)

\* handlers interleaved at their suspension points
SpecInterleaved == Init /\ [][NextInterleaved]_vars

\* the emojis the users pick while racing for the storyteller slot
StorytellerEmojis == {STORYTELLER_EMOJI, "swords"}

NextStorytellers ==
    \/ \E u \in Users, e \in StorytellerEmojis : UserReact(u, e)
    \/ \E u \in Users, e \in StorytellerEmojis : UserUnreact(u, e)
    \/ StartReactionAdd
    \/ \E i \in 1..Len(tasks) : ResumeReactionAdd(i)
    \/ StartRawReactionRemove
    \/ \E i \in 1..Len(tasks) : ResumeRawReactionRemove(i)

\* handlers interleaved at their suspension points while the users select and
\* give up the storyteller slot
SpecStorytellers == Init /\ [][NextStorytellers]_vars

\* ------------------------------------------------------------ properties
IsMain(e) == e \in Range(ALL_MAIN_EMOJIS)
IsTraveler(e) == e \in Range(ALL_TRAVELER_EMOJIS)
GroupOf(e) == IF IsMain(e) THEN "main" ELSE "traveler"
GroupEmojis(g) == IF g = "main" THEN Range(ALL_MAIN_EMOJIS) ELSE Range(ALL_TRAVELER_EMOJIS)
WeightOf(e) == get_guest_count_from_emoji(e, GroupOf(e))
CapacityOf(g) == IF g = "main" THEN MAX_MAIN_PLAYERS ELSE MAX_TRAVELERS
TotalIn(ps, g) ==
    IF g = "main" THEN get_total_main_count(ps) ELSE get_total_traveler_count(ps)
StoredIn(ps, u, g) == IF g = "main" THEN StoredMain(ps, u) ELSE StoredTraveler(ps, u)
UserIds(ps) == {ps[i].user_id : i \in 1..Len(ps)}
WithinCapacity(ps) ==
    /\ get_total_main_count(ps) <= MAX_MAIN_PLAYERS
    /\ get_total_traveler_count(ps) <= MAX_TRAVELERS
\* the roster holds entries of the live users only: the run began with an empty one
StartedEmpty == UserIds(game_data.players) \subseteq Users
\* the values stored for every user are the same in the two lists
SameStored(ps, qs) ==
    \A u \in UserIds(ps) \cup UserIds(qs) :
        /\ StoredMain(ps, u) = StoredMain(qs, u)
        /\ StoredTraveler(ps, u) = StoredTraveler(qs, u)
        /\ StoredStoryteller(ps, u) = StoredStoryteller(qs, u)
        /\ StoredHangout(ps, u) = StoredHangout(qs, u)

\* C1: starting from an empty roster, with handlers run one at a time and every
\* retraction succeeding, after every reconciliation the main total is <= 15,
\* the traveler total is <= 5 and at most one entry is storyteller.
C1_CapacityHeldWhenSerialized ==
    (manage_messages /\ StartedEmpty) =>
        /\ WithinCapacity(game_data.players)
        /\ get_total_storyteller_count(game_data.players) <= MAX_STORYTELLERS

\* C2: when retractions fail (the rejected or superseded reaction stays active
\* upstream), no selection_removed of a user all of whose adds have been
\* reconciled raises a category total above its capacity.
C2_CapacityKeptWhenRetractionFails ==
    [][(/\ OnRawReactionRemove
        /\ ~manage_messages
        /\ WithinCapacity(game_data.players)
        /\ \A i \in 1..Len(queue) :
              ~(queue[i].kind = "add" /\ queue[i].user_id = Head(queue).user_id))
       => WithinCapacity(game_data'.players)]_vars

\* C3: reconciliations are serialized: at most one handler is in progress at
\* any time, none starts while another is suspended at an await.
C3_OneHandlerAtATime == Len(tasks) <= 1

\* C4: for every interleaving, an accepted selection_added that completes its
\* write from a roster within capacity leaves the roster within capacity.
C4_CapacityHeldWhenInterleaved ==
    [][((\E i \in 1..Len(tasks) : ResumeReactionAdd(i))
        /\ WithinCapacity(game_data.players))
       => WithinCapacity(game_data'.players)]_vars

\* C5: a selection_added of a main / traveler token of weight w by user u is
\* accepted exactly when total - prior + w <= capacity, and on acceptance the
\* stored weight of u in the category becomes exactly w.
C5_AcceptedExactlyWhenFits ==
    [][(/\ OnReactionAdd
        /\ Head(queue).message_id = game_data.message_id
        /\ (IsMain(Head(queue).emoji) \/ IsTraveler(Head(queue).emoji)))
       => LET u == Head(queue).user_id
              g == GroupOf(Head(queue).emoji)
              w == WeightOf(Head(queue).emoji)
              fits == TotalIn(game_data.players, g)
                        - StoredIn(game_data.players, u, g) + w <= CapacityOf(g)
          IN  /\ (last'.outcome = "accepted") <=> fits
              /\ fits => StoredIn(game_data'.players, u, g) = w]_vars

\* C6: a rejected selection_added (over capacity in main or traveler, or the
\* storyteller slot held by another user) changes no stored weight or flag of
\* any user, so every category total is the same after the handler as before.
C6_RejectionChangesNothing ==
    [][(OnReactionAdd /\ last'.outcome = "rejected")
       => /\ SameStored(game_data.players, game_data'.players)
          /\ get_total_main_count(game_data'.players)
               = get_total_main_count(game_data.players)
          /\ get_total_traveler_count(game_data'.players)
               = get_total_traveler_count(game_data.players)
          /\ get_total_storyteller_count(game_data'.players)
               = get_total_storyteller_count(game_data.players)]_vars

\* a main / traveler selection has just been rejected with the roster non-empty
C6_Witness ==
    /\ last.op = "add"
    /\ last.outcome = "rejected"
    /\ IsMain(last.emoji) \/ IsTraveler(last.emoji)
    /\ TotalIn(game_data.players, GroupOf(last.emoji)) > 0
    /\ find_player(game_data.players, last.user_id) # -1

\* C7: on every rejection of a main / traveler selection the remaining-capacity
\* figure of the notification is capacity - (total - prior), is >= 0 and is
\* strictly smaller than the requested weight.
C7_AvailableSpotsFigure ==
    (last.op = "add" /\ last.outcome = "rejected"
        /\ (IsMain(last.emoji) \/ IsTraveler(last.emoji)))
    => LET g == GroupOf(last.emoji) IN
       /\ last.available = CapacityOf(g) - (TotalIn(game_data.players, g)
                                - StoredIn(game_data.players, last.user_id, g))
       /\ last.available >= 0
       /\ last.available < WeightOf(last.emoji)

\* C8: replaying an accepted selection_added (same user, same token, no signal
\* in between) is accepted again, changes nothing in the roster and sends no
\* notification.
C8_ReplayIsNoOp ==
    [][(/\ last.op = "add"
        /\ last.outcome \in {"accepted", "noop"}
        /\ queue = <<Signal("add", last.user_id, last.emoji, SignupMessage)>>
        /\ OnReactionAdd)
       => /\ last'.outcome \in {"accepted", "noop"}
          /\ game_data' = game_data
          /\ last'.dms = {}]_vars

\* C9: after every completed handler, whatever its outcome, the store holds no
\* entry with main_count = 0, traveler_count = 0 and both flags false.
C9_NoEmptyEntries ==
    \A i \in 1..Len(game_data.players) : IsActive(game_data.players[i])

\* the step is on_raw_reaction_remove applied to a main / traveler token of a
\* user who has an entry
RemovesSelection ==
    /\ OnRawReactionRemove
    /\ Head(queue).message_id = game_data.message_id
    /\ IsMain(Head(queue).emoji) \/ IsTraveler(Head(queue).emoji)
    /\ find_player(game_data.players, Head(queue).user_id) # -1

\* what C10 says of the stored weight and of the pruning
RemovalSetsRemaining(u, g) ==
    LET remaining == reactions[u] \cap GroupEmojis(g)
        after == game_data'.players
    IN  /\ IF remaining = {} THEN StoredIn(after, u, g) = 0
           ELSE \E e \in remaining : StoredIn(after, u, g) = WeightOf(e)
        /\ \A v \in UserIds(game_data.players) \ {u} :
              StoredIn(after, v, g) = StoredIn(game_data.players, v, g)
        /\ (find_player(after, u) = -1) <=>
              (/\ StoredMain(after, u) = 0
               /\ StoredTraveler(after, u) = 0
               /\ ~StoredStoryteller(after, u)
               /\ ~StoredHangout(after, u))

RemovalTail ==
    /\ Len(last'.steps) >= 3
    /\ last'.steps[1] = "prune"
    /\ last'.steps[2] = "save"
    /\ last'.steps[3] \in {"render", "render_failed"}
    /\ \A i \in 1..Len(game_data'.players) : IsActive(game_data'.players[i])
    /\ disk' = save_game_data(game_data')

StorytellerSelectionWhileHeld ==
    /\ OnReactionAdd
    /\ Head(queue).message_id = game_data.message_id
    /\ Head(queue).emoji = STORYTELLER_EMOJI
    /\ get_total_storyteller_count(game_data.players) >= 1

\* every user who holds the slot before the step holds it after
HoldersKeepSlot ==
    \A x \in UserIds(game_data.players) :
        StoredStoryteller(game_data.players, x)
            => StoredStoryteller(game_data'.players, x)

C13_OtherMessageIgnored ==
    [][((OnReactionAdd \/ OnRawReactionRemove)
        /\ Head(queue).message_id # game_data.message_id)
       => /\ game_data' = game_data
          /\ disk' = disk
          /\ reactions' = reactions
          /\ queue' = Tail(queue)
          /\ last'.dms = {}
          /\ last'.steps = <<>>
          /\ ~last'.raised]_vars

\* after a full reset a reaction on the former signup message has just been
\* ignored, the user holding reactions on it
C13_Witness ==
    /\ game_data.message_id = NoneId
    /\ last.op = "add"
    /\ last.outcome = "ignored"
    /\ last.emoji \in reactions[last.user_id]
    /\ game_data.players = <<>>

\* the category of a token, "none" for the seal and for unknown emojis
CategoryOf(e) ==
    IF IsMain(e) THEN "main"
    ELSE IF IsTraveler(e) THEN "traveler"
    ELSE IF e = STORYTELLER_EMOJI THEN "storyteller"
    ELSE IF e = HANGOUT_EMOJI THEN "hangout"
    ELSE "none"

\* the step leaves every stored value but that of user u in category c
OtherValuesKept(u, c) ==
    \A v \in UserIds(game_data.players) \cup UserIds(game_data'.players) \cup {u} :
        /\ (v # u \/ c # "main")
              => StoredMain(game_data'.players, v) = StoredMain(game_data.players, v)
        /\ (v # u \/ c # "traveler")
              => StoredTraveler(game_data'.players, v)
                   = StoredTraveler(game_data.players, v)
        /\ (v # u \/ c # "storyteller")
              => StoredStoryteller(game_data'.players, v)
                   = StoredStoryteller(game_data.players, v)
        /\ (v # u \/ c # "hangout")
              => StoredHangout(game_data'.players, v)
                   = StoredHangout(game_data.players, v)

\* C14: reconciling an add or remove signal for a token of one category for
\* user u leaves u's stored values in the other three categories and every
\* other user's stored values unchanged.
C14_CategoriesIndependent ==
    [][((OnReactionAddEnv \/ OnRawReactionRemoveEnv)
        /\ Head(queue).message_id = game_data.message_id)
       => OtherValuesKept(Head(queue).user_id, CategoryOf(Head(queue).emoji))]_vars

\* a user who holds a main weight has just had a traveler selection accepted
\* and holds both
C14_Witness ==
    /\ last.op = "add"
    /\ last.outcome = "accepted"
    /\ IsTraveler(last.emoji)
    /\ StoredMain(game_data.players, last.user_id) > 0
    /\ StoredTraveler(game_data.players, last.user_id) > 0


\* the roster a restart would restore from the persisted snapshot
PersistedRoster == load_game_data(DefaultGameData, disk).players

\* C15: whenever a reconciliation handler has completed, the roster in the
\* persisted snapshot equals the in-memory roster, entry for entry and value
\* for value.
C15_WriteThrough ==
    last.op \in {"add", "remove"} => PersistedRoster = game_data.players


C17_DamagedSnapshotGivesDefault ==
    [][(Restart(FALSE) /\ disk.status # "ok")
       => /\ game_data' = DefaultGameData
          /\ game_data'.players = <<>>
          /\ game_data'.message_id = NoneId
          /\ game_data'.channel_id = NoneId
          /\ game_data'.event_id = NoneId
          /\ game_data'.week_of = NoneStr
          /\ ~last'.raised]_vars

\* a process that crashed with a roster in memory has been started again on
\* a snapshot file json.load rejects
C17_Witness ==
    /\ last.op = "restart"
    /\ last.outcome = "crash"
    /\ disk.status = "malformed"
    /\ disk.text.players # <<>>
    /\ game_data = DefaultGameData


\* the roster ps holds the selection e for user u: the weight of a main or
\* traveler token, the flag of the storyteller or hangout token
StoredAsSelected(ps, u, e) ==
    IF IsMain(e) \/ IsTraveler(e)
    THEN StoredIn(ps, u, GroupOf(e)) = WeightOf(e)
    ELSE IF e = STORYTELLER_EMOJI THEN StoredStoryteller(ps, u)
    ELSE IF e = HANGOUT_EMOJI THEN StoredHangout(ps, u)
    ELSE TRUE

\* the handler went as far as the event update and event.edit failed
MirrorFailed(lg) == \E i \in 1..Len(lg.steps) : lg.steps[i] = "mirror_failed"

\* C18: a failure of the event update that follows an accepted roster
\* mutation does not raise out of the handler and does not change the roster:
\* the stored weight set by the reconciliation and the persisted snapshot
\* stay as accepted.
C18_MirrorFailureSwallowed ==
    [][((OnReactionAddEnv \/ OnRawReactionRemoveEnv) /\ MirrorFailed(last'))
       => /\ ~last'.raised
          /\ (last'.op = "add" /\ last'.outcome = "accepted")
                => /\ StoredAsSelected(game_data'.players,
                                       Head(queue).user_id, Head(queue).emoji)
                   /\ StoredAsSelected(load_game_data(DefaultGameData, disk').players,
                                       Head(queue).user_id, Head(queue).emoji)
          /\ last'.op = "remove"
                => load_game_data(DefaultGameData, disk').players
                     = game_data'.players]_vars

\* a main selection has just been accepted, stored and saved with the event
\* bound and its update failing
C18_Witness ==
    /\ last.op = "add"
    /\ last.outcome = "accepted"
    /\ IsMain(last.emoji)
    /\ game_data.event_id = SignupEvent
    /\ MirrorFailed(last)
    /\ ~last.raised
    /\ StoredAsSelected(PersistedRoster, last.user_id, last.emoji)


\* the handler's log holds the step
HasStep(lg, step) == \E i \in 1..Len(lg.steps) : lg.steps[i] = step

\* the user's other active reactions of the group of emoji e
OtherOfGroup(u, e) == (reactions[u] \cap GroupEmojis(GroupOf(e))) \ {e}

\* C19: when the user's other tokens of the category cannot be retracted, an
\* accepted selection_added still sets the stored weight to the new token's
\* weight, persists it and republishes the summary.
C19_AcceptedDespiteFailedRetraction ==
    [][(/\ OnReactionAdd
        /\ ~manage_messages
        /\ last'.outcome = "accepted"
        /\ (IsMain(Head(queue).emoji) \/ IsTraveler(Head(queue).emoji))
        /\ OtherOfGroup(Head(queue).user_id, Head(queue).emoji) # {})
       => /\ reactions' = reactions
          /\ StoredAsSelected(game_data'.players, Head(queue).user_id, Head(queue).emoji)
          /\ StoredAsSelected(load_game_data(DefaultGameData, disk').players,
                              Head(queue).user_id, Head(queue).emoji)
          /\ HasStep(last', "save")
          /\ HasStep(last', "render")]_vars

\* without Manage Messages a user who keeps another token of the group active
\* has just had a selection accepted and stored
C19_Witness ==
    /\ ~manage_messages
    /\ last.op = "add"
    /\ last.outcome = "accepted"
    /\ IsMain(last.emoji) \/ IsTraveler(last.emoji)
    /\ OtherOfGroup(last.user_id, last.emoji) # {}
    /\ StoredAsSelected(game_data.players, last.user_id, last.emoji)
    /\ HasStep(last, "render")


\* C20: a direct message that cannot be delivered never prevents an otherwise
\* acceptable selection_added from being recorded: also when the bot lacks
\* Manage Messages and the permission warning to the user fails, a main or
\* traveler selection that fits within capacity is stored, persisted and
\* republished.
C20_RecordedDespiteFailedNotification ==
    [][(/\ HandleReactionAdd(FALSE, TRUE, TRUE)
        /\ Head(queue).message_id = game_data.message_id
        /\ (IsMain(Head(queue).emoji) \/ IsTraveler(Head(queue).emoji))
        /\ FitsCapacity(TotalIn(game_data.players, GroupOf(Head(queue).emoji)),
                        StoredIn(game_data.players, Head(queue).user_id,
                                 GroupOf(Head(queue).emoji)),
                        WeightOf(Head(queue).emoji),
                        CapacityOf(GroupOf(Head(queue).emoji))))
       => /\ StoredAsSelected(game_data'.players, Head(queue).user_id, Head(queue).emoji)
          /\ StoredAsSelected(load_game_data(DefaultGameData, disk').players,
                              Head(queue).user_id, Head(queue).emoji)
          /\ HasStep(last', "render")]_vars

\* the call names a weekday, a time or a timezone the command does not accept
InvalidCall(c) ==
    \/ c[2] # NoneStr /\ parse_day_input(c[2]) = -1
    \/ c[3] # NoTime /\ ~parse_time_input(c[3]).ok
    \/ c[4] # NoneStr /\ c[4] \notin KnownTimezones

\* C21: a setup request with an unrecognized weekday token, an unparseable
\* time string or an unknown timezone name is rejected before any state is
\* mutated: roster entries, message / channel / event ids, week-of label and
\* occurrence override are unchanged and nothing is persisted.
C21_InvalidSetupChangesNothing ==
    [][(\E c \in SetupCalls :
           InvalidCall(c) /\ setup_game(c[1], c[2], c[3], c[4], c[5], c[6]))
       => /\ game_data' = game_data
          /\ disk' = disk
          /\ last'.steps = <<>>]_vars

\* a setup naming an unknown timezone has just been turned down with a game
\* bound and a roster in memory
C21_Witness ==
    /\ last.op = "setup_game"
    /\ last.outcome = "invalid_timezone"
    /\ game_data.message_id # NoneId
    /\ game_data.players # <<>>

\* the bindings of a game: message, channel and event ids and week-of label
Bindings(gd) == <<gd.message_id, gd.channel_id, gd.event_id, gd.week_of>>

\* C22: the reset of the signups empties the roster and persists it while
\* leaving the bound message id, channel id, event id and week-of label
\* unchanged; when no message is bound it changes nothing at all.
C22_ResetSignupsKeepsBindings ==
    [][(\E edit_ok \in BOOLEAN, event_ok \in BOOLEAN :
           reset_signups(TRUE, edit_ok, event_ok))
       => IF game_data.message_id # NoneId
          THEN /\ game_data'.players = <<>>
               /\ load_game_data(DefaultGameData, disk').players = <<>>
               /\ Bindings(game_data') = Bindings(game_data)
               /\ Bindings(load_game_data(DefaultGameData, disk')) = Bindings(game_data)
          ELSE game_data' = game_data /\ disk' = disk]_vars

\* the signups of a game with its event bound have just been reset while a
\* user still has a reaction on the message
C22_Witness ==
    /\ last.op = "reset_signups"
    /\ last.outcome = "done"
    /\ game_data.players = <<>>
    /\ game_data.message_id # NoneId
    /\ game_data.event_id # NoneId
    /\ \E u \in Users : reactions[u] # {}

\* C23: after a full reset the roster is empty and the message id, channel
\* id, event id and week-of label are all null, in memory and in the
\* persisted snapshot, whatever the state before the reset.
C23_FullResetUnbinds ==
    [][reset_game
       => /\ game_data'.players = <<>>
          /\ Bindings(game_data') = <<NoneId, NoneId, NoneId, NoneStr>>
          /\ disk'.status = "ok"
          /\ load_game_data(DefaultGameData, disk').players = <<>>
          /\ Bindings(load_game_data(DefaultGameData, disk'))
               = <<NoneId, NoneId, NoneId, NoneStr>>]_vars

\* a game has just been reset while a user still has a reaction on its
\* message and the occurrence override of its setup is still stored
C23_Witness ==
    /\ last.op = "reset_game"
    /\ game_data.players = <<>>
    /\ game_data.message_id = NoneId
    /\ game_data.custom_game_time # Absent
    /\ \E u \in Users : reactions[u] # {}

\* C24: the status query and the summary projection it uses mutate nothing:
\* roster entries, bindings, occurrence override and the persisted snapshot
\* are the same before and after, also when the projection falls back to the
\* minimal error summary.
C24_StatusMutatesNothing ==
    [][GameStatus
       => /\ game_data' = game_data
          /\ disk' = disk
          /\ reactions' = reactions
          /\ queue' = queue]_vars

\* the status of a game with a roster has just been answered with the
\* fallback embed
C24_Witness ==
    /\ last.op = "game_status"
    /\ last.outcome = "fallback"
    /\ "error" \in DOMAIN last.embed
    /\ game_data.players # <<>>
    /\ game_data.custom_game_time # Absent

\* the instants of the week from now on that fall on the weekday at the time
\* of day and are strictly after now
Occurrences(now, day_of_week, hour, minute) ==
    {t \in {Instant(now.day + k, hour, minute) : k \in 0..7} :
        Weekday(t) = day_of_week /\ Minutes(t) > Minutes(now)}

\* C25: for a recurring rule (weekday, hour, minute) the computed next
\* occurrence is the earliest instant strictly after the current time that
\* falls on that weekday at that hour and minute; when today is the target
\* weekday and the time is still ahead the result is today.
C25_NextOccurrenceIsEarliest ==
    (last.op = "call" /\ last.fn = "get_next_game_time" /\ last.done)
       => LET now == last.args[1]
              occ == Occurrences(now, last.args[2][1], last.args[2][2], last.args[2][3])
          IN  /\ last.result \in occ
              /\ \A t \in occ : Minutes(last.result) <= Minutes(t)

\* the tokens of each category and the decorative token, pairwise apart
TokenSets ==
    <<Range(ALL_MAIN_EMOJIS), Range(ALL_TRAVELER_EMOJIS), {STORYTELLER_EMOJI},
      {HANGOUT_EMOJI}, {SEAL_EMOJI}>>
TokensDisjoint ==
    \A i \in 1..Len(TokenSets), j \in 1..Len(TokenSets) :
        i # j => TokenSets[i] \cap TokenSets[j] = {}

\* C26: the token-to-weight mapping of main and of traveler gives the solo
\* token weight 1 and the k-th guest token weight k + 1 (weights 1..5,
\* strictly increasing, one token per weight), gives 0 for every token that
\* is not of the queried category, and no token belongs to more than one of
\* main, traveler, storyteller, hangout and the decorative token.
C26_WeightMapping ==
    (last.op = "call" /\ last.fn = "get_guest_count_from_emoji" /\ last.done)
       => LET emoji == last.args[1]
              group_type == last.args[2]
              solo == IF group_type = "main" THEN MAIN_PLAYER_EMOJI ELSE TRAVELER_EMOJI
              guests == IF group_type = "main" THEN MAIN_GUEST_EMOJIS
                        ELSE TRAVELER_GUEST_EMOJIS
              all == <<solo>> \o guests
          IN  /\ emoji = solo => last.result = 1
              /\ \A k \in 1..Len(guests) : emoji = guests[k] => last.result = k + 1
              /\ emoji \notin Range(all) => last.result = 0
              /\ emoji \in Range(all) => last.result \in 1..5
              /\ \A i \in 1..Len(all) :
                    /\ get_guest_count_from_emoji(all[i], group_type) = i
                    /\ all[i] # emoji
                          => get_guest_count_from_emoji(all[i], group_type) # last.result
              /\ TokensDisjoint

\* the weight of the fourth guest token of main has been looked up
C26_Witness ==
    /\ last.op = "call"
    /\ last.fn = "get_guest_count_from_emoji"
    /\ last.done
    /\ last.args = <<"lightning", "main">>
    /\ last.result = 5

\* C27: a selection_added of the decorative token is routed to the
\* notify-and-retract side effect only: it changes no stored weight or flag
\* of any user and no category total, and it does not persist or republish
\* the roster.
C27_SealTouchesNoRoster ==
    [][(/\ OnReactionAddEnv
        /\ Head(queue).message_id = game_data.message_id
        /\ Head(queue).emoji = SEAL_EMOJI)
       => /\ SameStored(game_data.players, game_data'.players)
          /\ get_total_main_count(game_data'.players)
               = get_total_main_count(game_data.players)
          /\ get_total_traveler_count(game_data'.players)
               = get_total_traveler_count(game_data.players)
          /\ get_total_storyteller_count(game_data'.players)
               = get_total_storyteller_count(game_data.players)
          /\ disk' = disk
          /\ last'.steps = <<>>
          /\ last'.dms \subseteq {"seal", "permission_warning"}]_vars

\* the seal has just been answered by DM and retracted while the roster
\* holds a main selection
C27_Witness ==
    /\ last.op = "add"
    /\ last.emoji = SEAL_EMOJI
    /\ last.outcome = "side_effect"
    /\ "seal" \in last.dms
    /\ SEAL_EMOJI \notin reactions[last.user_id]
    /\ get_total_main_count(game_data.players) > 0

\* the summary or the event was sent for an update
Republished(lg) ==
    HasStep(lg, "render") \/ HasStep(lg, "render_failed")
        \/ HasStep(lg, "mirror") \/ HasStep(lg, "mirror_failed")

\* C28: a selection_added or selection_removed on the bound message whose
\* token belongs to no category and is not the decorative token is ignored
\* entirely: roster entries and persisted snapshot are unchanged, no
\* notification is sent, no reaction is retracted and the summary and the
\* mirror are not republished.
C28_UnknownTokenIgnored ==
    [][(/\ OnReactionAddEnv \/ OnRawReactionRemoveEnv
        /\ Head(queue).message_id = game_data.message_id
        /\ Head(queue).emoji = OTHER_EMOJI)
       => /\ game_data' = game_data
          /\ disk' = disk
          /\ reactions' = reactions
          /\ last'.dms = {}
          /\ ~Republished(last')]_vars

\* an add of token t by a user with another token of the category active is
\* accepted: the others are retracted, their removals are on their way and
\* the stored weight is that of t
SupersedingAdd(perm_known) ==
    LET u == Head(queue).user_id
        e == Head(queue).emoji
    IN  (/\ OnReactionAdd
         /\ perm_known => manage_messages
         /\ last'.outcome = "accepted"
         /\ IsMain(e) \/ IsTraveler(e)
         /\ e \in reactions[u]
         /\ OtherOfGroup(u, e) # {})
        => /\ reactions'[u] \cap GroupEmojis(GroupOf(e)) = {e}
           /\ \A t \in OtherOfGroup(u, e) :
                 \E i \in 1..Len(queue') :
                     queue'[i] = Signal("remove", u, t, game_data.message_id)
           /\ StoredAsSelected(game_data'.players, u, e)

\* the removal of a retracted token is reconciled while t is the user's only
\* active token of the category and its weight is stored: both stay
InducedRemoval ==
    LET u == Head(queue).user_id
        e == Head(queue).emoji
    IN  (/\ OnRawReactionRemove
         /\ Head(queue).message_id = game_data.message_id
         /\ IsMain(e) \/ IsTraveler(e)
         /\ \E t \in GroupEmojis(GroupOf(e)) \ {e} :
               /\ reactions[u] \cap GroupEmojis(GroupOf(e)) = {t}
               /\ StoredAsSelected(game_data.players, u, t))
        => /\ reactions'[u] = reactions[u]
           /\ StoredIn(game_data'.players, u, GroupOf(e))
                = StoredIn(game_data.players, u, GroupOf(e))

StepsAt(lg, names) == {i \in 1..Len(lg.steps) : lg.steps[i] \in names}

\* every step of the first kind is logged before every step of the second
Before(lg, first, second) ==
    \A i \in StepsAt(lg, first), j \in StepsAt(lg, second) : i < j

\* C30: on an accepted selection_added the stored weight is set, then
\* persisted, then the summary is republished, then the mirror is updated;
\* the persisted snapshot holds the accepted weight before the render or the
\* mirror update starts, so a failure of either does not lose it.
C30_PersistBeforePublish ==
    [][(OnReactionAddEnv /\ last'.outcome = "accepted")
       => /\ StepsAt(last', {"save"}) = {1}
          /\ Before(last', {"save"}, {"render", "render_failed"})
          /\ Before(last', {"render", "render_failed"}, {"mirror", "mirror_failed"})
          /\ StepsAt(last', {"render", "render_failed"}) # {}
          /\ StoredAsSelected(game_data'.players, Head(queue).user_id, Head(queue).emoji)
          /\ StoredAsSelected(load_game_data(DefaultGameData, disk').players,
                              Head(queue).user_id, Head(queue).emoji)]_vars

\* a selection has just been accepted and saved, and the edit of the summary
\* that followed failed
C30_Witness ==
    /\ last.op = "add"
    /\ last.outcome = "accepted"
    /\ last.steps = <<"save", "prune", "render_failed">>
    /\ last.raised
    /\ StoredAsSelected(PersistedRoster, last.user_id, last.emoji)

\* C31: with no day override the weekday of the rule is Thursday:
\* get_next_thursday returns a date whose weekday index is 3 (Monday = 0),
\* the index parse_day_input gives for "thursday", so a setup without
\* arguments and a setup with day "thursday" schedule the same weekday.
C31_DefaultDayIsThursday ==
    (last.op = "call" /\ last.fn = "get_next_thursday" /\ last.done)
       => /\ Weekday(last.result) = 3
          /\ Weekday(last.result) = parse_day_input("thursday")
          /\ Weekday(get_next_game_time(last.args[1], GAME_DAY,
                                        GAME_TIME[1], GAME_TIME[2]))
               = Weekday(get_next_game_time(last.args[1], parse_day_input("thursday"),
                                            GAME_TIME[1], GAME_TIME[2]))


\* the reactions of group g user u has on the signup message
RemainingOf(u, g) == reactions[u] \cap GroupEmojis(g)

\* the removal event at the head of the queue is for the bound message, for an
\* emoji of group g, from a user with an entry who keeps two or more reactions
\* of the group
RemovalWithSeveralLeft(g) ==
    /\ queue # <<>>
    /\ Head(queue).kind = "remove"
    /\ Head(queue).message_id = game_data.message_id
    /\ Head(queue).emoji \in GroupEmojis(g)
    /\ Head(queue).user_id \in UserIds(game_data.players)
    /\ Cardinality(RemainingOf(Head(queue).user_id, g)) >= 2

C33_OneStorytellerWhenInterleaved ==
    Cardinality({i \in 1..Len(game_data.players) : game_data.players[i].storyteller})
        <= MAX_STORYTELLERS

\* both users have selected the storyteller token, every handler has completed,
\* and the flag is set for exactly one of them
C33_Witness ==
    /\ Idle
    /\ last.op = "add"
    /\ last.emoji = STORYTELLER_EMOJI
    /\ last.outcome = "rejected"
    /\ \E u \in Users :
          /\ u # last.user_id
          /\ STORYTELLER_EMOJI \in reactions[u]
          /\ StoredStoryteller(game_data.players, u)
    /\ ~StoredStoryteller(game_data.players, last.user_id)

\* C34: an accepted selection is not lost under interleaving: when the handler
\* of a user who had no entry resumes after the retraction of the user's other
\* reactions and completes, the roster holds the accepted weight for that user,
\* whatever clean-up ran while the handler was suspended.
C34_AcceptedSelectionKept ==
    [][\A i \in 1..Len(tasks) :
          (tasks[i].kind = "add" /\ tasks[i].fresh /\ ResumeReactionAdd(i))
             => StoredIn(game_data'.players, tasks[i].sig.user_id, tasks[i].group)
                  = WeightOf(tasks[i].sig.emoji)]_vars

\* user u has at most one reaction of group g and the stored weight is that
\* reaction's weight, 0 when u has none
AgreesWithReactions(ps, u, g) ==
    /\ Cardinality(RemainingOf(u, g)) <= 1
    /\ \A e \in RemainingOf(u, g) : StoredIn(ps, u, g) = WeightOf(e)
    /\ RemainingOf(u, g) = {} => StoredIn(ps, u, g) = 0

\* nothing is pending and the bot may retract reactions
Quiescent == Idle /\ manage_messages

\* the bound message is the one of the setup the run began with, when the
\* roster was empty: setup_game has not been called again
BoundWithEmptyRoster ==
    /\ game_data.message_id = SignupMessage
    /\ game_data.week_of = GameData(<<>>).week_of

RemovalForEmptyEntry ==
    /\ OnRawReactionRemove
    /\ Head(queue).kind = "remove"
    /\ Head(queue).message_id = game_data.message_id
    /\ Head(queue).user_id \in UserIds(game_data.players)
    /\ ~IsActive(PlayerOf(game_data.players, Head(queue).user_id))

C37_OneEntryPerUser ==
    \A i \in 1..Len(game_data.players), j \in 1..Len(game_data.players) :
        game_data.players[i].user_id = game_data.players[j].user_id => i = j

\* a user's second selection has been written to the entry the first one
\* created: the one entry of the user holds both
C37_Witness ==
    /\ last.op = "add"
    /\ last.outcome = "accepted"
    /\ StoredHangout(game_data.players, last.user_id)
    /\ StoredMain(game_data.players, last.user_id) = WeightOf("swords")
    /\ Cardinality({i \in 1..Len(game_data.players) :
                      game_data.players[i].user_id = last.user_id}) = 1

\* C38: a reaction event whose user is a bot, the add events of the reactions
\* the bot seeds at setup included, changes neither the roster nor the file, is
\* not retracted, and produces no notification and no republish.
C38_BotSignalsIgnored ==
    [][((OnReactionAddEnv \/ OnRawReactionRemoveEnv) /\ Head(queue).user_id = BotUser)
       => /\ game_data' = game_data
          /\ disk' = disk
          /\ reactions' = reactions
          /\ queue' = Tail(queue)
          /\ last'.dms = {}
          /\ last'.steps = <<>>
          /\ ~last'.raised]_vars

\* the add event of the bot's seeded swords reaction has been handled while a
\* user is signed up: the bot has no entry and keeps the reaction
C38_Witness ==
    /\ last.op = "add"
    /\ last.user_id = BotUser
    /\ last.emoji = "swords"
    /\ last.outcome = "bot"
    /\ "swords" \in reactions[BotUser]
    /\ BotUser \notin UserIds(game_data.players)
    /\ \E u \in Users : StoredMain(game_data.players, u) > 0

\* C39: a setup that posts its signup message rebinds the message id, the
\* channel id, the week-of label and the custom game time, and leaves the list
\* of roster entries as it was; the summary posted to the new message lists
\* those entries.
C39_SetupKeepsRoster ==
    [][(SetupGame /\ last'.outcome \in {"done", "event_failed"})
       => /\ game_data'.players = game_data.players
          /\ game_data'.message_id \notin {NoneId, game_data.message_id}
          /\ game_data'.channel_id = SignupChannel
          /\ game_data'.week_of \notin {NoneStr, GameData(<<>>).week_of}
          /\ game_data'.custom_game_time
                \notin {NoneStr, Absent, GameData(<<>>).custom_game_time}
          /\ last'.embed.listed = UserIds(game_data.players)
          /\ last'.embed.main = get_total_main_count(game_data.players)
          /\ last'.embed.next_game = game_data'.custom_game_time]_vars

\* a setup has completed while a user was signed up: the entry is kept and the
\* summary on the new message lists the user
C39_Witness ==
    /\ last.op = "setup_game"
    /\ last.outcome = "done"
    /\ game_data.message_id = LaterMessage
    /\ \E u \in CommandUsers :
          /\ StoredMain(game_data.players, u) = WeightOf("swords")
          /\ u \in last.embed.listed

\* C40: after a setup that posts its signup message the bound event id is the
\* id of the event that setup created, or null when creating the event failed:
\* the binding never keeps the event of an earlier setup.
C40_EventOfThisSetupOrNone ==
    [][(SetupGame /\ last'.outcome \in {"done", "event_failed"})
       => IF last'.outcome = "done"
          THEN game_data'.event_id \notin {NoneId, game_data.event_id}
          ELSE game_data'.event_id = NoneId]_vars

====
